---- MODULE Spec2Model ----
(***************************************************************************)
(* Model of the EPUB -> PDF conversion pipeline (convertEpubToPdf and its  *)
(* helpers) of chapter-craft.                                              *)
(*                                                                         *)
(* Text is a sequence of tokens.  A token is one character ("%", "#", "/", *)
(* ".", "&", ";", a hex digit, ...) or an opaque run of ordinary           *)
(* characters ("OEBPS", "ch1", "xhtml") that holds none of the characters  *)
(* the code looks at.  Vertical positions are counted in YU-ths of a       *)
(* point so that the half-point offsets of headings are integers.          *)
(***************************************************************************)
EXTENDS Integers, Sequences, FiniteSets, TLC

VARIABLES zip, conv, nat, box, markup, parsed, api, calls, lib, viewer

vars == <<zip, conv, nat, box, markup, parsed, api, calls, lib, viewer>>

-----------------------------------------------------------------------------
(* Bounds of the model *)

\* longest spine (number of itemref elements) of a package document
MaxSpine == 3

\* longest chapter markup, in pieces (elements, images, stretches of text)
MaxPieces == 2

-----------------------------------------------------------------------------
(* String helpers *)

RECURSIVE ReplaceAll(_, _, _)
\* String.prototype.replace(/pat/g, rep): left to right, non-overlapping
ReplaceAll(s, pat, rep) ==
    IF Len(s) < Len(pat) THEN s
    ELSE IF SubSeq(s, 1, Len(pat)) = pat
         THEN rep \o ReplaceAll(SubSeq(s, Len(pat) + 1, Len(s)), pat, rep)
         ELSE <<Head(s)>> \o ReplaceAll(Tail(s), pat, rep)

decodeXmlEntities(s) ==
    LET s1 == ReplaceAll(s,  <<"&", "a", "m", "p", ";">>, <<"&">>)
        s2 == ReplaceAll(s1, <<"&", "l", "t", ";">>, <<"<">>)
        s3 == ReplaceAll(s2, <<"&", "g", "t", ";">>, <<">">>)
        s4 == ReplaceAll(s3, <<"&", "q", "u", "o", "t", ";">>, <<"dquote">>)
    IN  ReplaceAll(s4, <<"&", "a", "p", "o", "s", ";">>, <<"'">>)

HexDigits == <<"0", "1", "2", "3", "4", "5", "6", "7", "8", "9",
               "A", "B", "C", "D", "E", "F">>

LowerHexDigits == <<"0", "1", "2", "3", "4", "5", "6", "7", "8", "9",
                    "a", "b", "c", "d", "e", "f">>

IsHex(t) == \E i \in 1..16 : HexDigits[i] = t \/ LowerHexDigits[i] = t

HexVal(t) == (CHOOSE i \in 1..16 : HexDigits[i] = t \/ LowerHexDigits[i] = t) - 1

\* the printable ASCII characters, code 32 first; the double quote, the
\* parentheses, the star, the backslash, the caret and the backquote are
\* written by name
Ascii == <<" ", "!", "dquote", "#", "$", "%", "&", "'", "lparen", "rparen", "star", "+", ",",
           "-", ".", "/", "0", "1", "2", "3", "4", "5", "6", "7", "8", "9",
           ":", ";", "<", "=", ">", "?", "@", "A", "B", "C", "D", "E", "F",
           "G", "H", "I", "J", "K", "L", "M", "N", "O", "P", "Q", "R", "S",
           "T", "U", "V", "W", "X", "Y", "Z", "[", "backslash", "]", "caret", "_", "backquote",
           "a", "b", "c", "d", "e", "f", "g", "h", "i", "j", "k", "l", "m",
           "n", "o", "p", "q", "r", "s", "t", "u", "v", "w", "x", "y", "z",
           "{", "|", "}", "~">>

\* String.fromCharCode(n): the UTF-16 code unit n modulo 2^16; a character
\* outside printable ASCII is written "chr" followed by its code
fromCharCode(n) ==
    LET u == n % 65536
    IN  IF u \in 32..126 THEN Ascii[u - 31] ELSE "chr" \o ToString(u)

RECURSIVE decodeURIComponent(_)
\* [ok |-> FALSE] stands for the URIError the built-in throws on a "%" that
\* does not start an escape of a complete UTF-8 sequence; a lone byte above
\* 0x7F is such a case.
decodeURIComponent(s) ==
    IF s = <<>> THEN [ok |-> TRUE, val |-> <<>>]
    ELSE IF Head(s) = "%"
         THEN IF /\ Len(s) >= 3
                 /\ IsHex(s[2])
                 /\ IsHex(s[3])
                 /\ 16 * HexVal(s[2]) + HexVal(s[3]) < 128
              THEN LET rest == decodeURIComponent(SubSeq(s, 4, Len(s)))
                   IN  [ok |-> rest.ok,
                        val |-> <<fromCharCode(16 * HexVal(s[2]) + HexVal(s[3]))>> \o rest.val]
              ELSE [ok |-> FALSE, val |-> <<>>]
         ELSE LET rest == decodeURIComponent(Tail(s))
              IN  [ok |-> rest.ok, val |-> <<Head(s)>> \o rest.val]

\* index of the first / last occurrence of token t in s, 0 if none
IndexOf(s, t) ==
    IF \E i \in 1..Len(s) : s[i] = t
    THEN CHOOSE i \in 1..Len(s) : s[i] = t /\ \A j \in 1..(i - 1) : s[j] # t
    ELSE 0

LastIndexOf(s, t) ==
    IF \E i \in 1..Len(s) : s[i] = t
    THEN CHOOSE i \in 1..Len(s) : s[i] = t /\ \A j \in (i + 1)..Len(s) : s[j] # t
    ELSE 0

resolveHref(baseDir, href) ==
    LET clean == IF IndexOf(href, "#") = 0 THEN href
                 ELSE SubSeq(href, 1, IndexOf(href, "#") - 1)
    IN  baseDir \o clean

\* opfPath.includes("/") ? opfPath.substring(0, opfPath.lastIndexOf("/") + 1) : ""
opfDirOf(opfPath) == SubSeq(opfPath, 1, LastIndexOf(opfPath, "/"))

-----------------------------------------------------------------------------
(* The archive: a function from entry paths to entries *)

NoImage == [width |-> 0, height |-> 0, loads |-> FALSE, addable |-> FALSE]
NoOpf == [items |-> <<>>, hasSpine |-> FALSE, itemrefs |-> <<>>]

\* an entry holding XML whose tags are `tags` (the container descriptor)
XmlEntry(tags) == [tags |-> tags, opf |-> NoOpf, nodes |-> <<>>, image |-> NoImage]
\* an entry holding a package document
OpfEntry(opf) == [tags |-> <<>>, opf |-> opf, nodes |-> <<>>, image |-> NoImage]
\* an entry holding chapter markup
HtmlEntry(nodes) == [tags |-> <<>>, opf |-> NoOpf, nodes |-> nodes, image |-> NoImage]
\* an entry holding an image: its natural size, whether the browser decodes
\* it (onload) or not (onerror), and whether jsPDF's addImage accepts it
ImageEntry(w, h, loads, addable) ==
    [tags |-> <<>>, opf |-> NoOpf, nodes |-> <<>>,
     image |-> [width |-> w, height |-> h, loads |-> loads, addable |-> addable]]

\* zip.file(path): null (FALSE) unless an entry has exactly this name
zipFile(z, path) == path \in DOMAIN z

\* zip.file(p) ?? zip.file(decodeURIComponent(p)): the entry's name, none
\* or the URIError of decodeURIComponent, which is evaluated only when the
\* exact lookup returned null
lookupWithDecode(z, path) ==
    IF zipFile(z, path) THEN [found |-> TRUE, threw |-> FALSE, name |-> path]
    ELSE LET d == decodeURIComponent(path)
         IN  IF ~d.ok THEN [found |-> FALSE, threw |-> TRUE, name |-> <<>>]
             ELSE IF zipFile(z, d.val)
                  THEN [found |-> TRUE, threw |-> FALSE, name |-> d.val]
                  ELSE [found |-> FALSE, threw |-> FALSE, name |-> <<>>]

ContainerPath == <<"META-INF", "/", "container", ".", "xml">>

\* readZipText as it would be if a missing entry read as empty text
readZipTextLenient(z, path) ==
    [ok |-> TRUE, entry |-> IF zipFile(z, path) THEN z[path] ELSE XmlEntry(<<>>)]

\* readZipText: the exact name only; a missing entry throws
readZipText(z, path) ==
    IF zipFile(z, path) THEN [ok |-> TRUE, entry |-> z[path]]
    ELSE [ok |-> FALSE, entry |-> XmlEntry(<<>>)]

\* /rootfile[^>]*full-path="([^"]+)"/: the first tag that holds the word
\* rootfile followed, inside the same tag, by a non-empty full-path attribute.
\* A tag is [name, fullPath], fullPath = <<>> when the attribute is absent or
\* empty.
parseRootfilePath(tags) ==
    LET hit(i) == tags[i].name \in {"rootfile", "rootfiles"} /\ tags[i].fullPath # <<>>
    IN  IF \E i \in 1..Len(tags) : hit(i)
        THEN [ok |-> TRUE,
              path |-> tags[CHOOSE i \in 1..Len(tags) :
                                hit(i) /\ \A j \in 1..(i - 1) : ~hit(j)].fullPath]
        ELSE [ok |-> FALSE, path |-> <<>>]

EmptyMap == [x \in {} |-> <<>>]

RECURSIVE manifestOf(_)
\* the manifest Map after the <item> loop: an item needs a non-empty id and
\* href; a later item with the same id overwrites the earlier one
manifestOf(items) ==
    IF items = <<>> THEN EmptyMap
    ELSE LET m == manifestOf(SubSeq(items, 1, Len(items) - 1))
             it == items[Len(items)]
         IN  IF it.id # "" /\ it.href # <<>>
             THEN [x \in DOMAIN m \cup {it.id} |->
                      IF x = it.id THEN decodeXmlEntities(it.href) ELSE m[x]]
             ELSE m

RECURSIVE spineOf(_, _)
\* the spine array: one SpineItem per itemref with a non-empty idref
spineOf(m, refs) ==
    IF refs = <<>> THEN <<>>
    ELSE LET r == Head(refs)
         IN  (IF r # ""
              THEN <<[id |-> r, href |-> IF r \in DOMAIN m THEN m[r] ELSE <<>>]>>
              ELSE <<>>) \o spineOf(m, Tail(refs))

\* parseOpf as it would be if the spine listed the referenced items in the
\* order of their declaration in the manifest
parseOpfManifestOrder(opf) ==
    LET m == manifestOf(opf.items)
        ids == [i \in 1..Len(opf.items) |-> opf.items[i].id]
        listed == SelectSeq(ids, LAMBDA x : \E j \in 1..Len(opf.itemrefs) : opf.itemrefs[j] = x)
    IN  [manifest |-> m,
         spine |-> IF opf.hasSpine THEN spineOf(m, listed) ELSE <<>>]

\* parseOpf as it would be if a package document without a spine section
\* were read in manifest order
parseOpfSpineFromManifest(opf) ==
    LET m == manifestOf(opf.items)
    IN  [manifest |-> m,
         spine |-> IF opf.hasSpine THEN spineOf(m, opf.itemrefs)
                   ELSE spineOf(m, [i \in 1..Len(opf.items) |-> opf.items[i].id])]

\* a package document is [items, hasSpine, itemrefs]: its <item> tags in
\* document order, whether a <spine>...</spine> section exists, and the
\* idref of each <itemref> inside it ("" when the attribute is absent)
parseOpf(opf) ==
    LET m == manifestOf(opf.items)
    IN  [manifest |-> m,
         spine |-> IF opf.hasSpine THEN spineOf(m, opf.itemrefs) ELSE <<>>]

-----------------------------------------------------------------------------
(* Chapter markup and content blocks *)

\* Text is a sequence of runs [w, n]: w names the words, n is the number of
\* lines the run takes when wrapped to the content width.  The empty
\* sequence is the empty string.
Run(w, n) == [w |-> w, n |-> n]

RECURSIVE lineCount(_)
\* pdf.splitTextToSize(text, CONTENT_WIDTH).length
lineCount(text) == IF text = <<>> THEN 0 ELSE Head(text).n + lineCount(Tail(text))

NoText == <<>>
NoSrc == <<>>

HeadingBlock(text, tag) ==
    [type |-> "heading", text |-> text, tag |-> tag, bold |-> FALSE, italic |-> FALSE, src |-> NoSrc]
ParagraphBlock(text, bold, italic) ==
    [type |-> "paragraph", text |-> text, tag |-> "", bold |-> bold, italic |-> italic, src |-> NoSrc]
ImageBlock(src) ==
    [type |-> "image", text |-> NoText, tag |-> "", bold |-> FALSE, italic |-> FALSE, src |-> src]

\* Markup is a sequence of top-level nodes in document order:
\*   [kind |-> "block", tag, imgs, text, bold, italic]  a recognized block
\*       element, the src of each <img> inside it, its text with the tags
\*       removed (entities as written) and whether a b/strong or i/em tag
\*       occurs inside it
\*   [kind |-> "img", src]    an <img> outside every recognized block
\*   [kind |-> "text", text]  text outside every recognized block
BlockNode(tag, imgs, text, bold, italic) ==
    [kind |-> "block", tag |-> tag, imgs |-> imgs, text |-> text,
     bold |-> bold, italic |-> italic, src |-> NoSrc]
ImgNode(src) ==
    [kind |-> "img", tag |-> "", imgs |-> <<>>, text |-> NoText,
     bold |-> FALSE, italic |-> FALSE, src |-> src]
TextNode(text) ==
    [kind |-> "text", tag |-> "", imgs |-> <<>>, text |-> text,
     bold |-> FALSE, italic |-> FALSE, src |-> NoSrc]

HeadingTags == {"h1", "h2", "h3", "h4", "h5", "h6"}

\* text whose characters are told apart: one run per character, no line of
\* its own
Chars(s) == [i \in 1..Len(s) |-> Run(s[i], 0)]

Digits == <<"0", "1", "2", "3", "4", "5", "6", "7", "8", "9">>
IsDigit(r) == \E i \in 1..10 : r = Run(Digits[i], 0)
DigitVal(r) == (CHOOSE i \in 1..10 : r = Run(Digits[i], 0)) - 1

RECURSIVE digitsEnd(_, _)
\* index of the last digit of the run of digits of s that starts at i
\* (i - 1 when s[i] is no digit)
digitsEnd(s, i) == IF i <= Len(s) /\ IsDigit(s[i]) THEN digitsEnd(s, i + 1) ELSE i - 1

RECURSIVE Number(_)
\* Number(code) of a string of decimal digits
Number(ds) == IF ds = <<>> THEN 0 ELSE 10 * Number(SubSeq(ds, 1, Len(ds) - 1)) + DigitVal(ds[Len(ds)])

RECURSIVE replaceNumericRefs(_)
\* .replace(/&#(\d+);/g, (_m, code) => String.fromCharCode(Number(code)))
replaceNumericRefs(s) ==
    IF s = <<>> THEN s
    ELSE LET e == digitsEnd(s, 3)
         IN  IF /\ Len(s) >= 4
                /\ s[1] = Run("&", 0) /\ s[2] = Run("#", 0)
                /\ e >= 3
                /\ e < Len(s) /\ s[e + 1] = Run(";", 0)
             THEN <<Run(fromCharCode(Number(SubSeq(s, 3, e))), 0)>>
                  \o replaceNumericRefs(SubSeq(s, e + 2, Len(s)))
             ELSE <<Head(s)>> \o replaceNumericRefs(Tail(s))

Newline == Run("newline", 0)

RECURSIVE collapseNewlines(_)
\* .replace(/\n{3,}/g, "\n\n")
collapseNewlines(s) ==
    IF Len(s) >= 3 /\ s[1] = Newline /\ s[2] = Newline /\ s[3] = Newline
    THEN collapseNewlines(Tail(s))
    ELSE IF s = <<>> THEN s
    ELSE <<Head(s)>> \o collapseNewlines(Tail(s))

\* the white space String.prototype.trim removes, U+00A0 included
IsSpace(r) == r.w \in {" ", "newline", "tab", "chr160"}

RECURSIVE trim(_)
trim(s) ==
    IF s = <<>> THEN s
    ELSE IF IsSpace(s[1]) THEN trim(Tail(s))
    ELSE IF IsSpace(s[Len(s)]) THEN trim(SubSeq(s, 1, Len(s) - 1))
    ELSE s

\* stripTags from its third replace on (the first two, <br> to a newline and
\* the removal of tags, are tagsToText below): the entity replacements in the
\* order of the chain, the collapse of newlines and the trim
stripTags(text) ==
    LET s1 == ReplaceAll(text, Chars(<<"&", "n", "b", "s", "p", ";">>), Chars(<<" ">>))
        s2 == ReplaceAll(s1, Chars(<<"&", "a", "m", "p", ";">>), Chars(<<"&">>))
        s3 == ReplaceAll(s2, Chars(<<"&", "l", "t", ";">>), Chars(<<"<">>))
        s4 == ReplaceAll(s3, Chars(<<"&", "g", "t", ";">>), Chars(<<">">>))
        s5 == ReplaceAll(s4, Chars(<<"&", "q", "u", "o", "t", ";">>), Chars(<<"dquote">>))
        s6 == ReplaceAll(s5, Chars(<<"&", "a", "p", "o", "s", ";">>), Chars(<<"'">>))
    IN  trim(collapseNewlines(replaceNumericRefs(s6)))

RECURSIVE imageBlocks(_)
imageBlocks(srcs) ==
    IF srcs = <<>> THEN <<>>
    ELSE <<ImageBlock(decodeXmlEntities(Head(srcs)))>> \o imageBlocks(Tail(srcs))

RECURSIVE blocksOfMatches(_)
\* the while loop over blockRegex matches: the images inside the block, then
\* the block's own text unless it is empty
blocksOfMatches(nodes) ==
    IF nodes = <<>> THEN <<>>
    ELSE LET nd == Head(nodes)
             text == trim(stripTags(nd.text))
         IN  (IF nd.kind = "block"
              THEN imageBlocks(nd.imgs) \o
                   (IF text = NoText THEN <<>>
                    ELSE IF nd.tag \in HeadingTags
                         THEN <<HeadingBlock(text, nd.tag)>>
                         ELSE <<ParagraphBlock(text, nd.bold, nd.italic)>>)
              ELSE <<>>) \o blocksOfMatches(Tail(nodes))

RECURSIVE looseImages(_)
\* the images that lie in no processed range, appended after the loop
looseImages(nodes) ==
    IF nodes = <<>> THEN <<>>
    ELSE (IF Head(nodes).kind = "img"
          THEN <<ImageBlock(decodeXmlEntities(Head(nodes).src))>>
          ELSE <<>>) \o looseImages(Tail(nodes))

RECURSIVE allText(_)
\* the text of the whole chapter, tags removed
allText(nodes) ==
    IF nodes = <<>> THEN NoText ELSE Head(nodes).text \o allText(Tail(nodes))

parseHtmlToBlocks(nodes) ==
    LET blocks == blocksOfMatches(nodes) \o looseImages(nodes)
        fallbackText == trim(stripTags(allText(nodes)))
    IN  IF blocks = <<>>
        THEN IF fallbackText # NoText
             THEN <<ParagraphBlock(fallbackText, FALSE, FALSE)>>
             ELSE <<>>
        ELSE blocks

-----------------------------------------------------------------------------
(* Markup as written: the regular expressions of parseHtmlToBlocks *)

\* A chapter's markup is a sequence of tokens:
\*   [k |-> "open", name]   an opening tag <name ...> (<br> and <br/> too)
\*   [k |-> "close", name]  a closing tag </name>
\*   [k |-> "img", src]     <img ... src="..." .../>
\*   [k |-> "chr", name]    a character of text (or a word taken whole)
Open(name) == [k |-> "open", name |-> name, src |-> NoSrc]
Close(name) == [k |-> "close", name |-> name, src |-> NoSrc]
Img(src) == [k |-> "img", name |-> "img", src |-> src]
Chr(c) == [k |-> "chr", name |-> c, src |-> NoSrc]
Txt(s) == [i \in 1..Len(s) |-> Chr(s[i])]
Elem(name, inner) == <<Open(name)>> \o inner \o <<Close(name)>>

BlockTags == HeadingTags \cup {"p", "div", "li", "blockquote", "tr", "dt", "dd"}

\* index of the first closing tag </name> of h after position i, 0 if none
closeAfter(h, i, name) ==
    IF \E j \in (i + 1)..Len(h) : h[j] = Close(name)
    THEN CHOOSE j \in (i + 1)..Len(h) :
            h[j] = Close(name) /\ \A l \in (i + 1)..(j - 1) : h[l] # Close(name)
    ELSE 0

RECURSIVE removeScripts(_)
\* html.replace(/<(script|style)[^>]*>[\s\S]*?<\/\1>/gi, "")
removeScripts(h) ==
    IF h = <<>> THEN h
    ELSE IF /\ Head(h).k = "open"
            /\ Head(h).name \in {"script", "style"}
            /\ closeAfter(h, 1, Head(h).name) # 0
         THEN removeScripts(SubSeq(h, closeAfter(h, 1, Head(h).name) + 1, Len(h)))
         ELSE <<Head(h)>> \o removeScripts(Tail(h))

\* whether blockRegex matches at position i: an opening tag of a block
\* element with a closing tag of the same name somewhere after it
matchesAt(h, i) ==
    h[i].k = "open" /\ h[i].name \in BlockTags /\ closeAfter(h, i, h[i].name) # 0

\* blockRegex.exec(cleaned) with lastIndex at pos: the leftmost match at or
\* after pos, which ends at the first closing tag of its name
execBlock(h, pos) ==
    IF \E i \in pos..Len(h) : matchesAt(h, i)
    THEN LET i == CHOOSE i \in pos..Len(h) :
                     matchesAt(h, i) /\ \A l \in pos..(i - 1) : ~matchesAt(h, l)
         IN  [found |-> TRUE, start |-> i, end |-> closeAfter(h, i, h[i].name), tag |-> h[i].name]
    ELSE [found |-> FALSE, start |-> 0, end |-> 0, tag |-> ""]

RECURSIVE tagsToText(_)
\* the first two replaces of stripTags: <br> becomes a newline, every other
\* tag goes
tagsToText(h) ==
    IF h = <<>> THEN NoText
    ELSE (IF Head(h).k = "chr" THEN <<Run(Head(h).name, 0)>>
          ELSE IF Head(h).k = "open" /\ Head(h).name = "br" THEN <<Newline>>
          ELSE NoText) \o tagsToText(Tail(h))

\* the src attributes of the <img> tags of h, in order
imgSrcs(h) ==
    LET imgs == SelectSeq(h, LAMBDA t : t.k = "img")
    IN  [i \in 1..Len(imgs) |-> imgs[i].src]

\* /<(b|strong)\b/i.test(content), /<(i|em)\b/i.test(content)
hasTag(h, names) == \E i \in 1..Len(h) : h[i].k = "open" /\ h[i].name \in names

RECURSIVE looseNodes(_)
\* what lies outside the processed ranges: the images and the text
looseNodes(h) ==
    IF h = <<>> THEN <<>>
    ELSE (IF Head(h).k = "img" THEN <<ImgNode(Head(h).src)>>
          ELSE IF tagsToText(<<Head(h)>>) # NoText THEN <<TextNode(tagsToText(<<Head(h)>>))>>
          ELSE <<>>) \o looseNodes(Tail(h))

RECURSIVE nodesFrom(_, _)
nodesFrom(h, pos) ==
    LET m == execBlock(h, pos)
        content == SubSeq(h, m.start, m.end)
    IN  IF ~m.found THEN looseNodes(SubSeq(h, pos, Len(h)))
        ELSE looseNodes(SubSeq(h, pos, m.start - 1))
             \o <<BlockNode(m.tag, imgSrcs(content), tagsToText(content),
                            hasTag(content, {"b", "strong"}), hasTag(content, {"i", "em"}))>>
             \o nodesFrom(h, m.end + 1)

\* the matches of blockRegex on the cleaned markup, with what lies between
\* them, in document order
nodesOf(html) == nodesFrom(removeScripts(html), 1)

-----------------------------------------------------------------------------
(* Page geometry and layout state *)

\* units per point of every vertical position: size * 0.5 is a whole number
\* of half points for every heading size
YU == 2
Pt(n) == n * YU

\* jsPDF({unit: "pt", format: "letter"}): 612 x 792 points
PAGE_WIDTH == 612
PAGE_HEIGHT == 792
MARGIN == 50
CONTENT_WIDTH == PAGE_WIDTH - MARGIN * 2
LINE_HEIGHT == 16
FONT_SIZE == 11
\* maxH of the image branch
MAX_IMAGE_HEIGHT == 400
\* the gap below an image, a heading and a paragraph
IMAGE_GAP == 10
HEADING_GAP == 4
PARAGRAPH_GAP == 6
\* the box getImageDimensions resolves with when the image fails to load
FALLBACK_WIDTH == 300
FALLBACK_HEIGHT == 200

\* HEADING_SIZES[block.tag ?? "h2"] ?? 15
\* HEADING_SIZES as it would be with the fourth level at the size of
\* paragraph text
headingSizeLowFourth(tag) ==
    CASE tag = "h1" -> 22
      [] tag = "h2" -> 18
      [] tag = "h3" -> 15
      [] tag = "h4" -> FONT_SIZE
      [] OTHER -> 15

headingSize(tag) ==
    CASE tag = "h1" -> 22
      [] tag = "h2" -> 18
      [] tag = "h3" -> 15
      [] tag = "h4" -> 13
      [] OTHER -> 15

\* the locals of one convertEpubToPdf call before its first statement; the
\* log fields starts, laid and placed record what the call drew
NewCall ==
    [pc |-> "readContainer", error |-> "", opfPath |-> <<>>, opfDir |-> <<>>,
     manifest |-> EmptyMap, spine |-> <<>>, si |-> 0, entry |-> <<>>,
     blocks |-> <<>>, bi |-> 0, imgHref |-> <<>>,
     cursorY |-> 0, isFirstPage |-> TRUE, numPages |-> 0,
     fontSize |-> 0, fontStyle |-> "",
     starts |-> <<>>, laid |-> <<>>, placed |-> <<>>, pageCount |-> 0]

Throw(c, e) == [c EXCEPT !.pc = "failed", !.error = e]

\* ensureSpace as it would be if it tested the cursor alone
ensureSpaceCursorOnly(c, needed) ==
    IF c.cursorY > Pt(PAGE_HEIGHT - MARGIN)
    THEN [c EXCEPT !.numPages = @ + 1, !.cursorY = Pt(MARGIN)]
    ELSE c

ensureSpace(c, needed) ==
    IF c.cursorY + needed > Pt(PAGE_HEIGHT - MARGIN)
    THEN [c EXCEPT !.numPages = @ + 1, !.cursorY = Pt(MARGIN)]
    ELSE c

\* addNewPage as it would be without the isFirstPage test
addNewPageAlways(c) ==
    [c EXCEPT !.numPages = @ + 1, !.cursorY = Pt(MARGIN), !.isFirstPage = FALSE]

addNewPage(c) ==
    [c EXCEPT !.numPages = IF c.isFirstPage THEN @ ELSE @ + 1,
              !.cursorY = Pt(MARGIN),
              !.isFirstPage = FALSE]

\* one line: ensureSpace(H); pdf.text(line, MARGIN, cursorY); cursorY += H
emitLine(c, H, type) ==
    LET c1 == ensureSpace(c, H)
    IN  [c1 EXCEPT !.placed = Append(@, [page |-> c1.numPages, y |-> c1.cursorY,
                                          H |-> H, type |-> type, size |-> c1.fontSize]),
                   !.cursorY = @ + H]

RECURSIVE emitLines(_, _, _, _)
\* for (const line of lines) { ... }.  The singleton set binds c1 to the
\* state after one line, so that a line is laid out once before the next.
emitLines(c, n, H, type) ==
    IF n = 0 THEN c
    ELSE CHOOSE r \in { emitLines(c1, n - 1, H, type) : c1 \in {emitLine(c, H, type)} } : TRUE

\* the entry of the log `laid` for block bi of spine item si, drawn as the
\* units `placed`
Laid(c, type, placed) ==
    [si |-> c.si, bi |-> c.bi, type |-> type, units |-> Len(placed),
     page |-> placed[1].page, y |-> placed[1].y,
     lastPage |-> placed[Len(placed)].page, lastY |-> placed[Len(placed)].y]

layoutHeading(c, block) ==
    LET size == headingSize(block.tag)
        c1 == ensureSpace(c, Pt(size + LINE_HEIGHT))
        c2 == [c1 EXCEPT !.cursorY = @ + (size * YU) \div 2,
                         !.fontSize = size, !.fontStyle = "bold"]
        c3 == emitLines(c2, lineCount(block.text), Pt(size + HEADING_GAP), "heading")
    IN  [c3 EXCEPT !.fontSize = FONT_SIZE, !.fontStyle = "normal",
                   !.cursorY = @ + Pt(HEADING_GAP),
                   !.laid = IF c3.placed = <<>> THEN @
                            ELSE Append(@, Laid(c, "heading", c3.placed)),
                   !.bi = @ + 1]

\* the paragraph branch as it would be without the setFont("Helvetica",
\* "normal") after the lines
layoutParagraphKeepStyle(c, block) ==
    IF block.text = NoText THEN [c EXCEPT !.bi = @ + 1]
    ELSE LET style == IF block.bold /\ block.italic THEN "bolditalic"
                      ELSE IF block.bold THEN "bold"
                      ELSE IF block.italic THEN "italic" ELSE "normal"
             c1 == [c EXCEPT !.fontSize = FONT_SIZE, !.fontStyle = style]
             c2 == emitLines(c1, lineCount(block.text), Pt(LINE_HEIGHT), "paragraph")
         IN  [c2 EXCEPT !.cursorY = @ + Pt(PARAGRAPH_GAP),
                        !.laid = Append(@, Laid(c, "paragraph", c2.placed)),
                        !.bi = @ + 1]

\* lines 156-173: the paragraph branch
layoutParagraph(c, block) ==
    IF block.text = NoText THEN [c EXCEPT !.bi = @ + 1]
    ELSE LET style == IF block.bold /\ block.italic THEN "bolditalic"
                      ELSE IF block.bold THEN "bold"
                      ELSE IF block.italic THEN "italic" ELSE "normal"
             c1 == [c EXCEPT !.fontSize = FONT_SIZE, !.fontStyle = style]
             c2 == emitLines(c1, lineCount(block.text), Pt(LINE_HEIGHT), "paragraph")
         IN  [c2 EXCEPT !.fontStyle = "normal",
                        !.cursorY = @ + Pt(PARAGRAPH_GAP),
                        !.laid = Append(@, Laid(c, "paragraph", c2.placed)),
                        !.bi = @ + 1]

-----------------------------------------------------------------------------
(* Images *)

toLowerCase(t) ==
    CASE t = "PNG" -> "png"
      [] t = "JPG" -> "jpg"
      [] t = "JPEG" -> "jpeg"
      [] t = "GIF" -> "gif"
      [] t = "WEBP" -> "webp"
      [] OTHER -> t

\* path.toLowerCase().split(".").pop() looked up in the format map; "" is null
getImageFormat(path) ==
    LET ext == SubSeq(path, LastIndexOf(path, ".") + 1, Len(path))
        e == IF Len(ext) = 1 THEN toLowerCase(ext[1]) ELSE ""
    IN  CASE e = "jpg" -> "JPEG"
          [] e = "jpeg" -> "JPEG"
          [] e = "png" -> "PNG"
          [] e = "gif" -> "GIF"
          [] e = "webp" -> "WEBP"
          [] OTHER -> ""

\* onload resolves the natural size, onerror the fallback box
getImageDimensions(image) ==
    IF image.loads THEN [width |-> image.width, height |-> image.height]
    ELSE [width |-> FALLBACK_WIDTH, height |-> FALLBACK_HEIGHT]

\* Exact fractions <<numerator, denominator>> stand for the doubles of the
\* scaling arithmetic.
RECURSIVE GCD(_, _)
GCD(a, b) == IF b = 0 THEN a ELSE GCD(b, a % b)

Frac(n, d) == IF n = 0 THEN <<0, 1>> ELSE <<n \div GCD(n, d), d \div GCD(n, d)>>
FracMul(a, b) == Frac(a[1] * b[1], a[2] * b[2])
FracDiv(a, b) == Frac(a[1] * b[2], a[2] * b[1])
FracGt(a, b) == a[1] * b[2] > b[1] * a[2]

\* displayBox as it would be if the second step cut the height to the
\* maximum and left the width as it was
displayBoxCutHeight(width, height) ==
    LET maxW == <<CONTENT_WIDTH, 1>>
        maxH == <<MAX_IMAGE_HEIGHT, 1>>
        w0 == <<width, 1>>
        h0 == <<height, 1>>
        h1 == IF FracGt(w0, maxW) THEN FracDiv(FracMul(h0, maxW), w0) ELSE h0
        w1 == IF FracGt(w0, maxW) THEN maxW ELSE w0
    IN  [w |-> w1, h |-> IF FracGt(h1, maxH) THEN maxH ELSE h1]

displayBox(width, height) ==
    LET maxW == <<CONTENT_WIDTH, 1>>
        maxH == <<MAX_IMAGE_HEIGHT, 1>>
        w0 == <<width, 1>>
        h0 == <<height, 1>>
        h1 == IF FracGt(w0, maxW) THEN FracDiv(FracMul(h0, maxW), w0) ELSE h0
        w1 == IF FracGt(w0, maxW) THEN maxW ELSE w0
        w2 == IF FracGt(h1, maxH) THEN FracDiv(FracMul(w1, maxH), h1) ELSE w1
        h2 == IF FracGt(h1, maxH) THEN maxH ELSE h1
    IN  [w |-> w2, h |-> h2]

\* a height in position units, cut to a whole unit
toUnits(f) == (f[1] * YU) \div f[2]

-----------------------------------------------------------------------------
(* convertEpubToPdf, one step per stretch of code between two awaits *)

\* lines 42-44: read the container descriptor and find the package document
stepReadContainer(z, c) ==
    LET r == readZipText(z, ContainerPath)
        p == parseRootfilePath(r.entry.tags)
    IN  IF ~r.ok THEN Throw(c, "MissingFile")
        ELSE IF ~p.ok THEN Throw(c, "NoRootfile")
        ELSE [c EXCEPT !.opfPath = p.path, !.opfDir = opfDirOf(p.path), !.pc = "readOpf"]

\* lines 47-84: read and parse the package document, create the PDF
stepReadOpf(z, c) ==
    LET r == readZipText(z, c.opfPath)
        o == parseOpf(r.entry.opf)
    IN  IF ~r.ok THEN Throw(c, "MissingFile")
        ELSE [c EXCEPT !.manifest = o.manifest, !.spine = o.spine,
                       !.numPages = 1, !.fontSize = FONT_SIZE, !.fontStyle = "normal",
                       !.cursorY = Pt(MARGIN), !.isFirstPage = TRUE,
                       !.si = 0, !.pc = "spine"]

\* the spine item the loop is at and the lookup of its chapter file
spineItem(c) == c.spine[c.si + 1]
hasManifestEntry(c) == spineItem(c).id \in DOMAIN c.manifest
chapterLookup(z, c) ==
    lookupWithDecode(z, resolveHref(c.opfDir, c.manifest[spineItem(c).id]))

\* stepSpine as it would be if the page break came before the manifest
\* lookup, so that an undeclared idref still opened a page
stepSpineBreakFirst(z, c) ==
    LET c0 == [c EXCEPT !.placed = <<>>]
    IN  IF c.si >= Len(c.spine)
        THEN [c0 EXCEPT !.pageCount = c.numPages, !.pc = "done"]
        ELSE IF ~hasManifestEntry(c)
             THEN [(IF c.si > 0 THEN addNewPageAlways(c0) ELSE c0) EXCEPT !.si = @ + 1]
        ELSE IF chapterLookup(z, c).threw THEN Throw(c0, "URIError")
        ELSE IF ~chapterLookup(z, c).found THEN [c0 EXCEPT !.si = @ + 1]
        ELSE [c0 EXCEPT !.entry = chapterLookup(z, c).name, !.pc = "readChapter"]

\* lines 87-96 and 177-182: the head of the spine loop up to the await of the
\* chapter read, and the return after the loop
stepSpine(z, c) ==
    LET c0 == [c EXCEPT !.placed = <<>>]
    IN  IF c.si >= Len(c.spine)
        THEN [c0 EXCEPT !.pageCount = c.numPages, !.pc = "done"]
        ELSE IF ~hasManifestEntry(c) THEN [c0 EXCEPT !.si = @ + 1]
        ELSE IF chapterLookup(z, c).threw THEN Throw(c0, "URIError")
        ELSE IF ~chapterLookup(z, c).found THEN [c0 EXCEPT !.si = @ + 1]
        ELSE [c0 EXCEPT !.entry = chapterLookup(z, c).name, !.pc = "readChapter"]

\* lines 96-106: the chapter text has arrived; page break and parse
stepReadChapter(z, c) ==
    LET c1 == IF c.si > 0 THEN addNewPage(c) ELSE [c EXCEPT !.isFirstPage = FALSE]
    IN  [c1 EXCEPT !.blocks = parseHtmlToBlocks(z[c.entry].nodes),
                   !.bi = 0,
                   !.starts = Append(@, [si |-> c.si, page |-> c1.numPages, y |-> c1.cursorY,
                                         pagesBefore |-> c.numPages]),
                   !.placed = <<>>,
                   !.pc = "block"]

block(c) == c.blocks[c.bi + 1]
imageLookup(z, c) == lookupWithDecode(z, resolveHref(c.opfDir, block(c).src))

\* lines 108-129 and 156-174: one iteration of the block loop for a heading
\* or a paragraph; for an image the lookup of its entry up to the await of
\* its data (a URIError is caught at line 153); after the last block the
\* loop over the spine goes on
stepBlock(z, c) ==
    LET c0 == [c EXCEPT !.placed = <<>>]
    IN  IF c.bi >= Len(c.blocks) THEN [c0 EXCEPT !.si = @ + 1, !.pc = "spine"]
        ELSE IF block(c).type = "heading" THEN layoutHeading(c0, block(c))
        ELSE IF block(c).type = "image"
             THEN IF imageLookup(z, c).found
                  THEN [c0 EXCEPT !.entry = imageLookup(z, c).name,
                                  !.imgHref = resolveHref(c.opfDir, block(c).src),
                                  !.pc = "imgRead"]
                  ELSE [c0 EXCEPT !.bi = @ + 1]
        ELSE layoutParagraph(c0, block(c))

\* lines 130-136: the image data has arrived; an unknown extension skips it
stepImgRead(z, c) ==
    IF getImageFormat(c.imgHref) = ""
    THEN [c EXCEPT !.bi = @ + 1, !.pc = "block"]
    ELSE [c EXCEPT !.pc = "imgDecode"]

\* the step after the decode as it would be if getImageDimensions had no
\* onerror handler: for an image that does not load, the promise never
\* settles and the call stays where it is
stepImgDecodeNoOnError(z, c) ==
    LET dims == getImageDimensions(z[c.entry].image)
        b == displayBox(dims.width, dims.height)
        c1 == ensureSpace(c, toUnits(b.h) + Pt(IMAGE_GAP))
        unit == [page |-> c1.numPages, y |-> c1.cursorY,
                 H |-> toUnits(b.h) + Pt(IMAGE_GAP), type |-> "image"]
    IN  IF ~z[c.entry].image.loads THEN c
        ELSE IF ~z[c.entry].image.addable
        THEN [c1 EXCEPT !.bi = @ + 1, !.pc = "block"]
        ELSE [c1 EXCEPT !.placed = <<unit>>,
                        !.laid = Append(@, Laid(c, "image", <<unit>>)),
                        !.cursorY = @ + toUnits(b.h) + Pt(IMAGE_GAP),
                        !.bi = @ + 1, !.pc = "block"]

\* lines 136-155: the dimensions have arrived; scale, reserve, draw.  When
\* addImage throws, the catch skips the cursor advance only.
stepImgDecode(z, c) ==
    LET dims == getImageDimensions(z[c.entry].image)
        b == displayBox(dims.width, dims.height)
        c1 == ensureSpace(c, toUnits(b.h) + Pt(IMAGE_GAP))
        unit == [page |-> c1.numPages, y |-> c1.cursorY,
                 H |-> toUnits(b.h) + Pt(IMAGE_GAP), type |-> "image"]
    IN  IF ~z[c.entry].image.addable
        THEN [c1 EXCEPT !.bi = @ + 1, !.pc = "block"]
        ELSE [c1 EXCEPT !.placed = <<unit>>,
                        !.laid = Append(@, Laid(c, "image", <<unit>>)),
                        !.cursorY = @ + toUnits(b.h) + Pt(IMAGE_GAP),
                        !.bi = @ + 1, !.pc = "block"]

\* the next step of a call, whatever it is
step(z, c) ==
    CASE c.pc = "readContainer" -> stepReadContainer(z, c)
      [] c.pc = "readOpf" -> stepReadOpf(z, c)
      [] c.pc = "spine" -> stepSpine(z, c)
      [] c.pc = "readChapter" -> stepReadChapter(z, c)
      [] c.pc = "block" -> stepBlock(z, c)
      [] c.pc = "imgRead" -> stepImgRead(z, c)
      [] c.pc = "imgDecode" -> stepImgDecode(z, c)
      [] OTHER -> c

RECURSIVE run(_, _)
\* the call run to its end: the record of a returned or failed call
run(z, c) == IF c.pc \in {"done", "failed"} THEN c ELSE run(z, step(z, c))

-----------------------------------------------------------------------------
(* The archives the conversion is run on *)

Dir == <<"OEBPS", "/">>
OpfPath == Dir \o <<"content", ".", "opf">>
RootOpfPath == <<"content", ".", "opf">>
\* a package document named with a percent-escape and stored under the
\* decoded name
EscapedOpfPath == Dir \o <<"my", "%", "2", "0", "book", ".", "opf">>
SpacedOpfPath == Dir \o <<"my", " ", "book", ".", "opf">>

Words(w, n) == <<Run(w, n)>>

PicSrc == <<"pic", ".", "png">>
WideSrc == <<"wide", ".", "jpg">>
BadSrc == <<"bad", ".", "png">>
OddSrc == <<"odd", "%", "2", "0", "1", ".", "PNG">>
LogoSrc == <<"logo", ".", "svg">>
MissingSrc == <<"missing", ".", "png">>
BrokenSrc == <<"50", "%", ".", "png">>
FigSrc == <<"fig", ".", "png">>
\* a chapter file in a subdirectory of the package document's directory
TextDir == Dir \o <<"text", "/">>
NestedHref == <<"text", "/", "ch5", ".", "xhtml">>

\* <h1>, a bold paragraph, an italic paragraph around an image, a heading
\* that is longer than a page, an image outside every block whose file is
\* missing, and loose text
Chapter1 ==
    << BlockNode("h1", <<>>, Words("Title", 1), FALSE, FALSE),
       BlockNode("p", <<>>, Words("Some bold text.", 3), TRUE, FALSE),
       BlockNode("p", <<PicSrc>>, Words("caption", 1), FALSE, TRUE),
       BlockNode("h2", <<>>, Words("a very long heading", 35), FALSE, FALSE),
       ImgNode(MissingSrc),
       TextNode(Words("loose", 2)) >>

\* a paragraph longer than a page, an h5 heading, a block of images only,
\* a list item that ends near the bottom of its page, a heading after it, a
\* paragraph below an image, an image jsPDF rejects and an image of an
\* unsupported format outside every block
Chapter2 ==
    << BlockNode("p", <<>>, Words("long", 45), TRUE, TRUE),
       BlockNode("h5", <<>>, Words("small heading", 2), FALSE, FALSE),
       BlockNode("div", <<WideSrc, PicSrc, BrokenSrc, OddSrc>>, NoText, FALSE, FALSE),
       ImgNode(LogoSrc),
       BlockNode("li", <<>>, Words("item", 4), FALSE, FALSE),
       BlockNode("h3", <<>>, Words("last", 1), FALSE, FALSE),
       BlockNode("h4", <<>>, Words("minor", 1), FALSE, FALSE),
       BlockNode("p", <<PicSrc>>, Words("below", 3), FALSE, FALSE),
       BlockNode("div", <<BadSrc>>, NoText, FALSE, FALSE) >>

\* no recognized block: text and a reference to a missing image
Chapter3 == << TextNode(Words("bare", 44)), ImgNode(MissingSrc) >>

\* no recognized block and no image: text alone
Chapter4 == << TextNode(Words("plain", 44)), TextNode(Words("more", 1)) >>

\* a paragraph around an image that is stored next to the chapter file
Chapter5 == << BlockNode("p", <<FigSrc>>, Words("figure", 1), FALSE, FALSE) >>

Files ==
    (Dir \o <<"ch1", ".", "xhtml">>) :> HtmlEntry(Chapter1)
    @@ (Dir \o <<"ch", " ", "2", ".", "xhtml">>) :> HtmlEntry(Chapter2)
    @@ (Dir \o <<"q", "&", "a", ".", "xhtml">>) :> HtmlEntry(Chapter3)
    @@ (Dir \o <<"100", "%", ".", "xhtml">>) :> HtmlEntry(Chapter4)
    @@ <<"ch1", ".", "xhtml">> :> HtmlEntry(Chapter4)
    @@ (Dir \o PicSrc) :> ImageEntry(1024, 2048, TRUE, TRUE)
    @@ (Dir \o WideSrc) :> ImageEntry(1024, 512, TRUE, TRUE)
    @@ (Dir \o BadSrc) :> ImageEntry(0, 0, FALSE, FALSE)
    @@ (Dir \o <<"odd", " ", "1", ".", "PNG">>) :> ImageEntry(0, 0, FALSE, TRUE)
    @@ (Dir \o LogoSrc) :> ImageEntry(64, 64, TRUE, TRUE)
    @@ PicSrc :> ImageEntry(1024, 2048, TRUE, TRUE)
    @@ (Dir \o NestedHref) :> HtmlEntry(Chapter5)
    @@ (TextDir \o FigSrc) :> ImageEntry(200, 100, TRUE, TRUE)

\* the href attributes of manifest items, as written in the package document
Hrefs ==
    { <<"ch1", ".", "xhtml">>,
      <<"ch1", ".", "xhtml", "#", "top">>,
      <<"ch", "%", "2", "0", "2", ".", "xhtml">>,
      <<"q", "&", "a", "m", "p", ";", "a", ".", "xhtml">>,
      <<"100", "%", ".", "xhtml">>,
      <<"50", "%", ".", "xhtml">>,
      <<"gone", ".", "xhtml">>,
      <<>> }

\* the hrefs the second id is declared with
Hrefs2 ==
    { <<"ch1", ".", "xhtml">>,
      <<"ch", "%", "2", "0", "2", ".", "xhtml">>,
      <<"50", "%", ".", "xhtml">>,
      <<>> }

Items ==
    { [id |-> "ch1", href |-> h] : h \in Hrefs } \cup { [id |-> "ch2", href |-> h] : h \in Hrefs2 }

Manifests == {<<>>} \cup { <<a>> : a \in Items } \cup { <<a, b>> : a \in Items, b \in Items }

Idrefs == {"ch1", "ch2", "nope"}

Spines == UNION { [1..n -> Idrefs] : n \in 0..MaxSpine }

Opfs ==
    { [items |-> m, hasSpine |-> TRUE, itemrefs |-> sp] : m \in Manifests, sp \in Spines }
    \cup { [items |-> m, hasSpine |-> FALSE, itemrefs |-> <<>>] : m \in Manifests }

\* a package document with both chapters, used where the container varies
PlainOpf ==
    [items |-> << [id |-> "ch1", href |-> <<"ch1", ".", "xhtml">>],
                  [id |-> "ch2", href |-> <<"ch", "%", "2", "0", "2", ".", "xhtml">>] >>,
     hasSpine |-> TRUE, itemrefs |-> <<"ch2", "ch1">>]

Tag(name, fullPath) == [name |-> name, fullPath |-> fullPath]

Containers ==
    { << Tag("container", <<>>), Tag("rootfiles", <<>>), Tag("rootfile", OpfPath) >>,
      << Tag("container", <<>>), Tag("rootfiles", <<>>), Tag("rootfile", RootOpfPath) >>,
      << Tag("container", <<>>), Tag("rootfiles", <<>>), Tag("rootfile", <<>>) >>,
      << Tag("container", <<>>), Tag("rootfiles", <<>>) >>,
      << Tag("rootfile", <<>>), Tag("rootfile", RootOpfPath), Tag("rootfile", OpfPath) >>,
      << Tag("rootfile", Dir \o <<"absent", ".", "opf">>) >>,
      <<>> }

Archives ==
    \* a well-formed container, every package document
    { Files @@ ContainerPath :> XmlEntry(<< Tag("rootfiles", <<>>), Tag("rootfile", OpfPath) >>)
            @@ OpfPath :> OpfEntry(o) : o \in Opfs }
    \* every container, with and without the package documents
    \cup { Files @@ ContainerPath :> XmlEntry(t) @@ OpfPath :> OpfEntry(PlainOpf)
                 @@ RootOpfPath :> OpfEntry(PlainOpf) : t \in Containers }
    \cup { Files @@ ContainerPath :> XmlEntry(t) : t \in Containers }
    \* no container descriptor
    \cup { Files @@ OpfPath :> OpfEntry(PlainOpf), Files }
    \* the package document stored under the percent-decoded name
    \cup { Files @@ ContainerPath :> XmlEntry(<< Tag("rootfile", EscapedOpfPath) >>)
                 @@ SpacedOpfPath :> OpfEntry(PlainOpf) }
    \* a chapter in a subdirectory, after a chapter next to the package document
    \cup { Files @@ ContainerPath :> XmlEntry(<< Tag("rootfile", OpfPath) >>)
                 @@ OpfPath :> OpfEntry([items |-> << [id |-> "ch1", href |-> <<"ch1", ".", "xhtml">>],
                                                      [id |-> "ch2", href |-> NestedHref] >>,
                                         hasSpine |-> TRUE, itemrefs |-> <<"ch1", "ch2">>]) }

\* the archives of two conversions that run at the same time: both chapters
\* with their images, a chapter of bare text, and a manifest href that makes
\* the chapter lookup throw
PairArchives ==
    { Files @@ ContainerPath :> XmlEntry(<< Tag("rootfile", OpfPath) >>) @@ OpfPath :> OpfEntry(o) :
        o \in { PlainOpf,
                [items |-> << [id |-> "ch1", href |-> <<"100", "%", ".", "xhtml">>] >>,
                 hasSpine |-> TRUE, itemrefs |-> <<"ch1">>],
                [items |-> << [id |-> "ch1", href |-> <<"ch1", ".", "xhtml">>],
                              [id |-> "ch2", href |-> <<"50", "%", ".", "xhtml">>] >>,
                 hasSpine |-> TRUE, itemrefs |-> <<"ch1", "ch2">>] } }

\* the archives the progress of a call is followed on: those of the pair,
\* a chapter in a subdirectory, idrefs without a manifest item and without a
\* file, and the containers that name no package document
LiveArchives ==
    PairArchives
    \cup { Files @@ ContainerPath :> XmlEntry(<< Tag("rootfile", OpfPath) >>) @@ OpfPath :> OpfEntry(o) :
             o \in { [items |-> << [id |-> "ch1", href |-> <<"ch1", ".", "xhtml">>],
                                   [id |-> "ch2", href |-> NestedHref] >>,
                      hasSpine |-> TRUE, itemrefs |-> <<"ch2", "ch1">>],
                     [items |-> << [id |-> "ch1", href |-> <<"gone", ".", "xhtml">>],
                                   [id |-> "ch2", href |-> <<"q", "&", "a", "m", "p", ";", "a", ".", "xhtml">>] >>,
                      hasSpine |-> TRUE, itemrefs |-> <<"nope", "ch1", "ch2">>],
                     [items |-> << [id |-> "ch1", href |-> <<"ch1", ".", "xhtml">>] >>,
                      hasSpine |-> FALSE, itemrefs |-> <<>>] } }
    \cup { Files @@ ContainerPath :> XmlEntry(t) @@ RootOpfPath :> OpfEntry(PlainOpf) : t \in Containers }

CallIds == {"first", "second"}
NoCalls == [i \in CallIds |-> [zip |-> Files, conv |-> [NewCall EXCEPT !.pc = "idle"]]]

\* one step of call i as it would be if cursorY were a variable of the
\* module that all calls share
stepCallSharedCursor(cs, i) ==
    LET c == step(cs[i].zip, cs[i].conv)
    IN  [j \in CallIds |->
            IF j = i THEN [cs[j] EXCEPT !.conv = c]
            ELSE [cs[j] EXCEPT !.conv.cursorY = c.cursorY]]

\* one step of call i, up to its next await: zip, pdf, cursorY, isFirstPage,
\* manifest and spine are locals of the call
stepCall(cs, i) == [cs EXCEPT ![i].conv = step(cs[i].zip, cs[i].conv)]

-----------------------------------------------------------------------------
(* The image sizes the display box is computed for *)

Sizes == {1, 100, 300, 399, 400, 401, 511, 512, 513, 640, 1024, 1600}

NoBox == [w |-> <<0, 1>>, h |-> <<0, 1>>, done |-> FALSE]
NoViewer == [open |-> FALSE]
NotParsed == [done |-> FALSE, blocks |-> <<>>]

-----------------------------------------------------------------------------
(* The chapter markup parseHtmlToBlocks is applied to *)

\* <h1>Title</h1>
TitlePiece == Elem("h1", Txt(<<"Title">>))
\* <p>Some <b>bold</b> text.</p>
BoldPiece ==
    Elem("p", Txt(<<"Some", " ">>) \o Elem("b", Txt(<<"bold">>)) \o Txt(<<" ", "text.">>))
\* <p><img src="wide.jpg"/><em>it</em></p>
FigurePiece == Elem("p", <<Img(WideSrc)>> \o Elem("em", Txt(<<"it">>)))
\* <h5><strong>small</strong></h5>
SmallPiece == Elem("h5", Elem("strong", Txt(<<"small">>)))
\* <img src="pic.png"/> outside every block
ImagePiece == <<Img(PicSrc)>>
\* text outside every block
LoosePiece == Txt(<<"loose">>)
\* <div><h2>Inner</h2><p>body</p></div>
SectionPiece == Elem("div", Elem("h2", Txt(<<"Inner">>)) \o Elem("p", Txt(<<"body">>)))
\* <div><div>in</div>after</div>
NestedPiece == Elem("div", Elem("div", Txt(<<"in">>)) \o Txt(<<"after">>))
\* <script>code</script>
ScriptPiece == Elem("script", Txt(<<"code">>))
\* <p> <br/><br/><br/></p>
BlankPiece == Elem("p", <<Chr(" "), Open("br"), Open("br"), Open("br")>>)
\* <li>&amp;&lt;&gt;&quot;&apos;</li>
NamedPiece ==
    Elem("li", Txt(<<"&", "a", "m", "p", ";", "&", "l", "t", ";", "&", "g", "t", ";",
                     "&", "q", "u", "o", "t", ";", "&", "a", "p", "o", "s", ";">>))
\* <p>a&nbsp;b</p>
NbspPiece == Elem("p", Txt(<<"a", "&", "n", "b", "s", "p", ";", "b">>))
\* <p>&#65;</p>
DecimalPiece == Elem("p", Txt(<<"&", "#", "6", "5", ";">>))
\* <p>&#128512;</p>, a code point above U+FFFF
AstralPiece == Elem("p", Txt(<<"&", "#", "1", "2", "8", "5", "1", "2", ";">>))
\* <p>&#x41;</p>
HexPiece == Elem("p", Txt(<<"&", "#", "x", "4", "1", ";">>))
\* <p>&amp;lt;</p>
EscapedPiece == Elem("p", Txt(<<"&", "a", "m", "p", ";", "l", "t", ";">>))

Pieces ==
    { TitlePiece, BoldPiece, FigurePiece, SmallPiece, ImagePiece, LoosePiece, SectionPiece,
      NestedPiece, ScriptPiece, BlankPiece, NamedPiece, NbspPiece, DecimalPiece, AstralPiece,
      HexPiece, EscapedPiece }

RECURSIVE Joined(_)
Joined(ps) == IF ps = <<>> THEN <<>> ELSE Head(ps) \o Joined(Tail(ps))

Htmls == { Joined(ps) : ps \in UNION { [1..n -> Pieces] : n \in 0..MaxPieces } }
Idle == [NewCall EXCEPT !.pc = "idle"]

-----------------------------------------------------------------------------
(* The bot-facing endpoint (the later of the two versions of its handler)
   and the api_keys table it reads *)

\* the values generateKey may produce, and the absent x-api-key header
KeyValues == {"worm_a", "worm_b"}
NoKeyHeader == ""

\* createKey calls and requests of a behaviour
MaxKeys == 2
MaxRequests == 3

\* the users of the application: keys, books and chapters carry a user_id
Users == {"u1", "u2"}
\* the user signed in to the session that manages keys
SessionUser == "u1"
BookIds == {"b1", "b2"}
NoParam == ""
\* a JSON body: the fields title and cover_image_url, "undefined" when absent
Body(title, cover) == [title |-> title, cover_image_url |-> cover]

\* the rows of books and chapters before any request
Books0 ==
    [b \in BookIds |-> [title |-> "old", cover_image_url |-> "none",
                        user_id |-> IF b = "b1" THEN "u1" ELSE "u2"]]
Chapters0 ==
    { [id |-> "c1", book_id |-> "b1", user_id |-> "u1"],
      [id |-> "c2", book_id |-> "b2", user_id |-> "u2"] }

Request(method, key, bookId, chapterId, body) ==
    [method |-> method, key |-> key, bookId |-> bookId, chapterId |-> chapterId,
     body |-> body, pc |-> "arrived", revokedAtArrival |-> FALSE, activeAtCheck |-> FALSE]

NoBody == Body("undefined", "undefined")

Requests ==
    { Request("GET", NoKeyHeader, NoParam, NoParam, NoBody),
      Request("PATCH", NoKeyHeader, "b1", NoParam, Body("new", "undefined")),
      Request("OPTIONS", NoKeyHeader, NoParam, NoParam, NoBody),
      Request("GET", "worm_a", NoParam, NoParam, NoBody),
      Request("GET", "worm_a", "b1", NoParam, NoBody),
      Request("GET", "worm_a", "b2", NoParam, NoBody),
      Request("GET", "worm_b", NoParam, "c1", NoBody),
      Request("GET", "worm_b", NoParam, "cx", NoBody),
      Request("POST", "worm_b", "b1", NoParam, Body("new", "undefined")),
      Request("PATCH", "worm_a", "b1", NoParam, Body("new", "undefined")),
      Request("PATCH", "worm_b", "b1", NoParam, Body("undefined", "url")),
      Request("PATCH", "worm_a", NoParam, NoParam, Body("new", "undefined")),
      Request("PATCH", "worm_a", "b1", NoParam, NoBody),
      Request("PATCH", "worm_b", "bx", NoParam, Body("new", "undefined")) }

NoRequest == [Request("", NoKeyHeader, NoParam, NoParam, NoBody) EXCEPT !.pc = "none"]

Response(r, status, data) ==
    [method |-> r.method, key |-> r.key, status |-> status, data |-> data, rows |-> {},
     revokedAtArrival |-> r.revokedAtArrival, activeAtCheck |-> r.activeAtCheck]

NoResponse == Response(NoRequest, 0, "none")

\* api_keys rows are [id, user_id, key_value, revoked]; key_value is UNIQUE
NoApi ==
    [keys |-> {}, created |-> 0, books |-> Books0, chapters |-> Chapters0,
     req |-> NoRequest, resp |-> NoResponse, arrived |-> 0]

\* the key lookup as it would be without .is("revoked_at", null)
keyRowRevokedToo(keys, apiKey) == \E k \in keys : k.key_value = apiKey

\* .from("api_keys").select("id").eq("key_value", apiKey).is("revoked_at", null)
\* .maybeSingle(): whether it returns a row
keyRow(keys, apiKey) == \E k \in keys : k.key_value = apiKey /\ ~k.revoked

\* whether a row with that key value has been revoked
keyRevoked(keys, apiKey) == \E k \in keys : k.key_value = apiKey /\ k.revoked

\* createKey of the signed-in user u: the insert fails on a key_value that
\* is in the table
createKey(a, v, u) ==
    IF \E k \in a.keys : k.key_value = v
    THEN [a EXCEPT !.created = @ + 1]
    ELSE [a EXCEPT !.created = @ + 1,
                   !.keys = @ \cup {[id |-> a.created + 1, user_id |-> u, key_value |-> v,
                                     revoked |-> FALSE]}]

\* revokeKey: update({revoked_at: now}).eq("id", id)
revokeKey(a, id) ==
    [a EXCEPT !.keys = { IF k.id = id THEN [k EXCEPT !.revoked = TRUE] ELSE k : k \in @ }]

respond(a, status, data) ==
    [a EXCEPT !.resp = Response(a.req, status, data), !.req = NoRequest]

\* a response that carries rows of books or chapters, as (kind, id, user_id)
respondRows(a, status, data, rows) ==
    [respond(a, status, data) EXCEPT !.resp.rows = rows]

bookRow(a, id) == [kind |-> "book", id |-> id, user_id |-> a.books[id].user_id]
chapterRow(c) == [kind |-> "chapter", id |-> c.id, user_id |-> c.user_id]

\* the handler up to the key validation
handleKey(a) ==
    LET r == a.req
    IN  IF r.method = "OPTIONS" THEN respond(a, 200, "none")
        ELSE IF r.key = NoKeyHeader THEN respond(a, 401, "error")
        ELSE IF ~keyRow(a.keys, r.key)
             THEN respond([a EXCEPT !.req.activeAtCheck = FALSE], 403, "error")
        ELSE [a EXCEPT !.req.pc = "authorized", !.req.activeAtCheck = TRUE]

\* the handler after the key validation: PATCH, then the GET endpoints
handleRequest(a) ==
    LET r == a.req
    IN  IF r.method = "PATCH"
        THEN IF r.bookId = NoParam THEN respond(a, 400, "error")
             ELSE IF r.body = NoBody THEN respond(a, 400, "error")
             ELSE IF r.bookId \notin DOMAIN a.books THEN respond(a, 400, "error")
             ELSE respondRows([a EXCEPT
                                !.books[r.bookId].title =
                                    IF r.body.title = "undefined" THEN @ ELSE r.body.title,
                                !.books[r.bookId].cover_image_url =
                                    IF r.body.cover_image_url = "undefined" THEN @
                                    ELSE r.body.cover_image_url],
                              200, "book", {bookRow(a, r.bookId)})
        ELSE IF r.chapterId # NoParam
             THEN IF \E c \in a.chapters : c.id = r.chapterId
                  THEN respondRows(a, 200, "chapter",
                                   { chapterRow(c) : c \in { x \in a.chapters : x.id = r.chapterId } })
                  ELSE respond(a, 400, "error")
        ELSE IF r.bookId # NoParam
             THEN respondRows(a, 200, "chapters",
                              { chapterRow(c) : c \in { x \in a.chapters : x.book_id = r.bookId } })
        ELSE respondRows(a, 200, "books", { bookRow(a, b) : b \in DOMAIN a.books })


-----------------------------------------------------------------------------
(* The library: addBook of AppContext.tsx over the books table, the storage
   bucket and the in-memory book list of the signed-in user.  A file name is
   a sequence of tokens like a path; the names of the model hold no "%" and
   no "_", the wildcards of ilike. *)

lowerToken(t) ==
    CASE t = "Book" -> "book"
      [] t = "Tale" -> "tale"
      [] t = "PDF" -> "pdf"
      [] OTHER -> t

lowerName(name) == [k \in 1..Len(name) |-> lowerToken(name[k])]

\* .ilike("file_name", book.fileName) on names without wildcards
ilike(a, b) == lowerName(a) = lowerName(b)

DEFAULT_STORAGE_EXTENSION == "pdf"

\* fileName.toLowerCase().split("."): the last part, "pdf" when there is
\* no dot or the last part is empty
getFileExtension(fileName) ==
    LET n == lowerName(fileName)
        d == LastIndexOf(n, ".")
    IN  IF d = 0 \/ d = Len(n) THEN DEFAULT_STORAGE_EXTENSION ELSE n[Len(n)]

\* `${userId}/${bookId}.${ext}` of the one user, as <<bookId, ext>>
getStoragePath(bookId, fileName) == <<bookId, getFileExtension(fileName)>>

getStoragePathsForBook(bookId, fileName) ==
    {getStoragePath(bookId, fileName), <<bookId, "pdf">>}

NoFile == <<>>
BookPdf == <<"book", ".", "pdf">>
BookPdfCapital == <<"Book", ".", "PDF">>
TaleEpub == <<"Tale", ".", "epub">>
TalePdf == <<"Tale", ".", "pdf">>

\* the arguments of an addBook call: the book (its id is set per call), and
\* the name of sourceFile or NoFile; fileData is "" in a book without data
BookInputs ==
    { [fileName |-> BookPdf, title |-> "book", hasData |-> TRUE, sourceFile |-> NoFile],
      [fileName |-> BookPdfCapital, title |-> "Book", hasData |-> FALSE, sourceFile |-> NoFile],
      [fileName |-> TaleEpub, title |-> "Tale", hasData |-> FALSE, sourceFile |-> TalePdf] }

\* the rows of the user in the books table before the calls, id -> row, and
\* the files of the bucket
Tables0 ==
    { [x \in {} |-> 0],
      [x \in {"e1"} |-> [file_name |-> BookPdfCapital, title |-> "old"]],
      [x \in {"e1"} |-> [file_name |-> TaleEpub, title |-> "old"]] }

Storage0(t) == { getStoragePath(id, t[id].file_name) : id \in DOMAIN t }

\* what loadBooks put into the book list
List0(t) ==
    IF DOMAIN t = {} THEN <<>>
    ELSE << [id |-> "e1", fileName |-> t["e1"].file_name, title |-> t["e1"].title,
             hasData |-> FALSE] >>

Callers == {"one", "two"}
NewId(i) == IF i = "one" THEN "n1" ELSE "n2"

\* the locals of one addBook call before its first await
NewAddBook(i, in) ==
    [pc |-> "lookup", book |-> [id |-> NewId(i), fileName |-> in.fileName, title |-> in.title,
                                hasData |-> in.hasData],
     sourceFile |-> in.sourceFile,
     existingBookId |-> "", existingFileName |-> NoFile,
     finalBookId |-> NewId(i), createdNewBook |-> FALSE]

NoLib == [table |-> [x \in {} |-> 0], table0 |-> [x \in {} |-> 0], storage |-> {},
          list |-> <<>>, list0 |-> <<>>, call |-> [i \in {} |-> 0]]

\* the updater of setBooks after a successful write: put the book first,
\* or merge it into the entry with its id
setBooksUpsert(prev, nextBook) ==
    IF \A k \in 1..Len(prev) : prev[k].id # nextBook.id
    THEN <<nextBook>> \o prev
    ELSE [k \in 1..Len(prev) |-> IF prev[k].id = nextBook.id THEN nextBook ELSE prev[k]]

\* prev.filter((b) => b.id !== finalBookId)
setBooksRemove(prev, id) == SelectSeq(prev, LAMBDA b : b.id # id)

\* lines 79-93: the lookup of a row with the same file name has answered;
\* row is the id of the row it returned, "" for none
addBookLookup(l, i, ok, row) ==
    IF ~ok THEN [l EXCEPT !.call[i].pc = "threw"]
    ELSE [l EXCEPT !.call[i].existingBookId = row,
                   !.call[i].existingFileName = IF row = "" THEN NoFile ELSE l.table[row].file_name,
                   !.call[i].finalBookId = IF row = "" THEN @ ELSE row,
                   !.call[i].pc = "write"]

\* the rows the lookup can return: any one row whose name matches
lookupRows(l, i) ==
    LET hits == { id \in DOMAIN l.table : ilike(l.table[id].file_name, l.call[i].book.fileName) }
    IN  IF hits = {} THEN {""} ELSE hits

\* the book as it is put into the list
nextBookOf(c, hasData) ==
    [id |-> c.finalBookId, fileName |-> c.book.fileName, title |-> c.book.title,
     hasData |-> hasData]

\* lines 95-135: the insert (no row was found) or the update (of the row
\* found) has answered; without a file the book list is set and the call
\* returns, otherwise the upload is started.  An insert of an id the table
\* holds fails on the primary key; an update of a row that is gone changes
\* nothing.
addBookWrite(l, i, ok) ==
    LET c == l.call[i]
        isNew == c.existingBookId = ""
        row == [file_name |-> c.book.fileName, title |-> c.book.title]
        t1 == IF isNew
              THEN [x \in DOMAIN l.table \cup {c.book.id} |-> IF x = c.book.id THEN row ELSE l.table[x]]
              ELSE [x \in DOMAIN l.table |-> IF x = c.existingBookId THEN row ELSE l.table[x]]
        c1 == [c EXCEPT !.createdNewBook = isNew]
    IN  IF ~ok \/ (isNew /\ c.book.id \in DOMAIN l.table) THEN [l EXCEPT !.call[i].pc = "threw"]
        ELSE IF c.sourceFile = NoFile /\ ~c.book.hasData
             THEN [l EXCEPT !.table = t1,
                            !.list = setBooksUpsert(@, nextBookOf(c1, FALSE)),
                            !.call[i] = [c1 EXCEPT !.pc = "returned"]]
             ELSE [l EXCEPT !.table = t1, !.call[i] = [c1 EXCEPT !.pc = "upload"]]

uploadPath(c) ==
    getStoragePath(c.finalBookId, IF c.sourceFile # NoFile THEN c.sourceFile ELSE c.book.fileName)

stalePaths(c) ==
    IF c.existingFileName = NoFile THEN {}
    ELSE getStoragePathsForBook(c.finalBookId, c.existingFileName) \ {uploadPath(c)}

\* lines 137-150 and 164-173: the fetch of the data and the upload have
\* answered; on success stale files are removed or the list is set, on
\* failure the catch deletes a row this call created and throws
addBookUpload(l, i, ok) ==
    LET c == l.call[i]
    IN  IF ok
        THEN IF stalePaths(c) # {}
             THEN [l EXCEPT !.storage = @ \cup {uploadPath(c)}, !.call[i].pc = "removeStale"]
             ELSE [l EXCEPT !.storage = @ \cup {uploadPath(c)},
                            !.list = setBooksUpsert(@, nextBookOf(c, TRUE)),
                            !.call[i].pc = "returned"]
        ELSE IF c.createdNewBook THEN [l EXCEPT !.call[i].pc = "rollback"]
        ELSE [l EXCEPT !.call[i].pc = "threw"]

\* lines 152-163: the removal of the stale files has answered (its error
\* is not looked at); the list is set and the call returns
addBookRemoveStale(l, i, ok) ==
    LET c == l.call[i]
    IN  [l EXCEPT !.storage = IF ok THEN @ \ stalePaths(c) ELSE @,
                  !.list = setBooksUpsert(@, nextBookOf(c, TRUE)),
                  !.call[i].pc = "returned"]

\* lines 167-172: the delete of the created row has answered (its error is
\* not looked at); the book leaves the list and the call throws
addBookRollback(l, i, ok) ==
    LET c == l.call[i]
    IN  [l EXCEPT !.table = IF ok THEN [x \in DOMAIN @ \ {c.finalBookId} |-> @[x]] ELSE @,
                  !.list = setBooksRemove(@, c.finalBookId),
                  !.call[i].pc = "threw"]

-----------------------------------------------------------------------------
(* The viewer: the state of PdfViewer.tsx, mounted by Index.tsx while the
   viewer tab is shown, and the chapters it passes to addChapter *)

\* times the viewer is mounted and chapters confirmed in a behaviour
MaxMounts == 3
MaxConfirms == 2

\* the documents of the library and their numbers of pages; 0 is a file
\* that does not load (the upload stores it with pageCount 0)
DocPages == [a |-> 3, b |-> 2, bad |-> 0]
DocIds == DOMAIN DocPages
NoBookId == ""
NoPage == 0

\* the chapters of the books before the session
DocChapters0 ==
    [d \in DocIds |-> IF d = "a" THEN {[startPage |-> 2, endPage |-> 3]} ELSE {}]

NoDialog == [open |-> FALSE, endPage |-> 0]

\* the state of a PdfViewer that has just mounted: lines 25-32
mountViewer(v) ==
    [v EXCEPT !.tab = "viewer", !.mounts = @ + 1,
              !.numPages = 0, !.currentPage = 1, !.chapterStart = NoPage,
              !.markedIn = NoBookId, !.namingDialog = NoDialog]

\* setActiveBook from the library: the book becomes active and the viewer
\* tab is shown
setActiveBook(v, id) == mountViewer([v EXCEPT !.activeBookId = id])

\* the library tab replaces the viewer: PdfViewer unmounts
showLibrary(v) == [v EXCEPT !.tab = "library"]

\* whether the toolbar of the viewer takes input: a book is shown and the
\* naming dialog, which is modal, is closed
toolbarEnabled(v) ==
    v.tab = "viewer" /\ v.activeBookId # NoBookId /\ ~v.namingDialog.open

onDocumentLoadSuccess(v) == [v EXCEPT !.numPages = DocPages[v.activeBookId]]

goToPage(v, page) ==
    IF page >= 1 /\ page <= v.numPages THEN [v EXCEPT !.currentPage = page] ELSE v

\* markedIn records the book that is active at the click
markChapterStart(v) ==
    [v EXCEPT !.chapterStart = v.currentPage, !.markedIn = v.activeBookId]

markChapterEnd(v) ==
    IF v.chapterStart = NoPage THEN v
    ELSE IF v.currentPage < v.chapterStart THEN v
    ELSE [v EXCEPT !.namingDialog = [open |-> TRUE, endPage |-> v.currentPage]]

cancelChapterStart(v) == [v EXCEPT !.chapterStart = NoPage]

cancelNaming(v) == [v EXCEPT !.namingDialog = NoDialog]

\* handleChapterConfirm up to its first await: the dialog closes and the
\* text extraction starts with the book, chapterStart and endPage of this
\* render
handleChapterConfirm(v) ==
    IF v.chapterStart = NoPage THEN v
    ELSE [v EXCEPT !.namingDialog = NoDialog,
                   !.confirms = @ + 1,
                   !.extracting = @ \cup {[bookId |-> v.activeBookId,
                                           startPage |-> v.chapterStart,
                                           endPage |-> v.namingDialog.endPage,
                                           markedIn |-> v.markedIn,
                                           mount |-> v.mounts]}]

\* handleChapterConfirm after the extraction (a failure of it is caught):
\* addChapter, which appends the chapter to its book, and
\* setChapterStart(null) in the viewer instance the call belongs to
finishChapterConfirm(v, e) ==
    LET chapter == [startPage |-> e.startPage, endPage |-> e.endPage]
    IN  [v EXCEPT !.extracting = @ \ {e},
                  !.added = @ \cup {[bookId |-> e.bookId, startPage |-> e.startPage,
                                     endPage |-> e.endPage, markedIn |-> e.markedIn]},
                  !.chapters[e.bookId] = @ \cup {chapter},
                  !.chapterStart = IF v.tab = "viewer" /\ v.mounts = e.mount
                                   THEN NoPage ELSE @]

handleChapterSelect(v, chapter) == [v EXCEPT !.currentPage = chapter.startPage]

NewViewer ==
    [open |-> TRUE, tab |-> "library", activeBookId |-> NoBookId, mounts |-> 0,
     numPages |-> 0, currentPage |-> 1, chapterStart |-> NoPage, markedIn |-> NoBookId,
     namingDialog |-> NoDialog, confirms |-> 0, extracting |-> {}, added |-> {},
     chapters |-> DocChapters0]

-----------------------------------------------------------------------------
(* Specification of one conversion *)

Init ==
    /\ zip \in Archives
    /\ conv = NewCall
    /\ nat = <<0, 0>>
    /\ box = NoBox
    /\ markup = <<>>
    /\ parsed = NotParsed
    /\ api = NoApi
    /\ calls = NoCalls
    /\ lib = NoLib
    /\ viewer = NoViewer

Advance == conv' = step(zip, conv) /\ UNCHANGED <<zip, nat, box, markup, parsed, api, calls, lib, viewer>>

ReadContainer == conv.pc = "readContainer" /\ Advance

ReadOpf == conv.pc = "readOpf" /\ Advance

AtSpineItem == conv.pc = "spine" /\ conv.si < Len(conv.spine)

Return == conv.pc = "spine" /\ conv.si >= Len(conv.spine) /\ Advance

SkipNoManifestEntry == AtSpineItem /\ ~hasManifestEntry(conv) /\ Advance

ChapterLookupThrows ==
    AtSpineItem /\ hasManifestEntry(conv) /\ chapterLookup(zip, conv).threw /\ Advance

SkipNoZipEntry ==
    /\ AtSpineItem /\ hasManifestEntry(conv)
    /\ ~chapterLookup(zip, conv).threw /\ ~chapterLookup(zip, conv).found
    /\ Advance

OpenChapter == AtSpineItem /\ hasManifestEntry(conv) /\ chapterLookup(zip, conv).found /\ Advance

ReadChapter == conv.pc = "readChapter" /\ Advance

AtBlock == conv.pc = "block" /\ conv.bi < Len(conv.blocks)

EndChapter == conv.pc = "block" /\ conv.bi >= Len(conv.blocks) /\ Advance

LayoutHeading == AtBlock /\ block(conv).type = "heading" /\ Advance

LayoutParagraph == AtBlock /\ block(conv).type = "paragraph" /\ Advance

OpenImage == AtBlock /\ block(conv).type = "image" /\ imageLookup(zip, conv).found /\ Advance

SkipImage == AtBlock /\ block(conv).type = "image" /\ ~imageLookup(zip, conv).found /\ Advance

ReadImage == conv.pc = "imgRead" /\ Advance

DrawImage == conv.pc = "imgDecode" /\ Advance

Next ==
    \/ ReadContainer
    \/ ReadOpf
    \/ Return
    \/ SkipNoManifestEntry
    \/ ChapterLookupThrows
    \/ SkipNoZipEntry
    \/ OpenChapter
    \/ ReadChapter
    \/ EndChapter
    \/ LayoutHeading
    \/ LayoutParagraph
    \/ OpenImage
    \/ SkipImage
    \/ ReadImage
    \/ DrawImage

Spec == Init /\ [][Next]_vars

-----------------------------------------------------------------------------
(* Specification of the display box alone *)

InitBox ==
    /\ zip = Files
    /\ conv = Idle
    /\ nat \in Sizes \X Sizes
    /\ box = NoBox
    /\ markup = <<>>
    /\ parsed = NotParsed
    /\ api = NoApi
    /\ calls = NoCalls
    /\ lib = NoLib
    /\ viewer = NoViewer

ComputeBox ==
    /\ ~box.done
    /\ box' = [w |-> displayBox(nat[1], nat[2]).w, h |-> displayBox(nat[1], nat[2]).h, done |-> TRUE]
    /\ UNCHANGED <<zip, conv, nat, markup, parsed, api, calls, lib, viewer>>

NextBox == ComputeBox

SpecBox == InitBox /\ [][NextBox]_vars

-----------------------------------------------------------------------------
(* Specification of parseHtmlToBlocks alone *)

InitHtml ==
    /\ zip = Files
    /\ conv = Idle
    /\ nat = <<0, 0>>
    /\ box = NoBox
    /\ markup \in Htmls
    /\ parsed = NotParsed
    /\ api = NoApi
    /\ calls = NoCalls
    /\ lib = NoLib
    /\ viewer = NoViewer

ParseHtml ==
    /\ ~parsed.done
    /\ parsed' = [done |-> TRUE, blocks |-> parseHtmlToBlocks(nodesOf(markup))]
    /\ UNCHANGED <<zip, conv, nat, box, markup, api, calls, lib, viewer>>

NextHtml == ParseHtml

SpecHtml == InitHtml /\ [][NextHtml]_vars

-----------------------------------------------------------------------------
(* Specification of the endpoint with the creation and revocation of keys *)

InitApi ==
    /\ zip = Files
    /\ conv = Idle
    /\ nat = <<0, 0>>
    /\ box = NoBox
    /\ markup = <<>>
    /\ parsed = NotParsed
    /\ api = NoApi
    /\ calls = NoCalls
    /\ lib = NoLib
    /\ viewer = NoViewer

ApiStep(a) == api' = a /\ UNCHANGED <<zip, conv, nat, box, markup, parsed, calls, lib, viewer>>

CreateKey ==
    \E v \in KeyValues : api.created < MaxKeys /\ ApiStep(createKey(api, v, SessionUser))

RevokeKey == \E k \in api.keys : ~k.revoked /\ ApiStep(revokeKey(api, k.id))

Arrive ==
    \E r \in Requests :
        /\ api.req = NoRequest
        /\ api.arrived < MaxRequests
        /\ ApiStep([api EXCEPT !.arrived = @ + 1,
                               !.req = [r EXCEPT !.revokedAtArrival = keyRevoked(api.keys, r.key)]])

AnswerOptions == api.req.pc = "arrived" /\ api.req.method = "OPTIONS" /\ ApiStep(handleKey(api))

RejectNoKey ==
    /\ api.req.pc = "arrived" /\ api.req.method # "OPTIONS" /\ api.req.key = NoKeyHeader
    /\ ApiStep(handleKey(api))

RejectKey ==
    /\ api.req.pc = "arrived" /\ api.req.method # "OPTIONS" /\ api.req.key # NoKeyHeader
    /\ ~keyRow(api.keys, api.req.key)
    /\ ApiStep(handleKey(api))

\* keyError: the lookup itself fails
KeyLookupFails ==
    /\ api.req.pc = "arrived" /\ api.req.method # "OPTIONS" /\ api.req.key # NoKeyHeader
    /\ ApiStep(respond([api EXCEPT !.req.activeAtCheck = keyRow(api.keys, api.req.key)],
                       403, "error"))

AcceptKey ==
    /\ api.req.pc = "arrived" /\ api.req.method # "OPTIONS" /\ api.req.key # NoKeyHeader
    /\ keyRow(api.keys, api.req.key)
    /\ ApiStep(handleKey(api))

Patch == api.req.pc = "authorized" /\ api.req.method = "PATCH" /\ ApiStep(handleRequest(api))

Read == api.req.pc = "authorized" /\ api.req.method # "PATCH" /\ ApiStep(handleRequest(api))

NextApi ==
    \/ CreateKey
    \/ RevokeKey
    \/ Arrive
    \/ AnswerOptions
    \/ RejectNoKey
    \/ RejectKey
    \/ KeyLookupFails
    \/ AcceptKey
    \/ Patch
    \/ Read

SpecApi == InitApi /\ [][NextApi]_vars

-----------------------------------------------------------------------------
(* Specification of one conversion whose awaited promises all settle *)

InitLive ==
    /\ zip \in LiveArchives
    /\ conv = NewCall
    /\ nat = <<0, 0>>
    /\ box = NoBox
    /\ markup = <<>>
    /\ parsed = NotParsed
    /\ api = NoApi
    /\ calls = NoCalls
    /\ lib = NoLib
    /\ viewer = NoViewer

\* every await of the call is on a promise that settles: JSZip's reads
\* resolve or reject, and an image decode signals load or error, so the
\* continuation that is waiting is run
SpecLive == InitLive /\ [][Next]_vars /\ WF_vars(Next)

-----------------------------------------------------------------------------
(* Specification of two conversions that interleave at their awaits *)

InitPair ==
    /\ zip = Files
    /\ conv = Idle
    /\ nat = <<0, 0>>
    /\ box = NoBox
    /\ markup = <<>>
    /\ parsed = NotParsed
    /\ api = NoApi
    /\ calls \in [CallIds -> { [zip |-> z, conv |-> NewCall] : z \in PairArchives }]
    /\ lib = NoLib
    /\ viewer = NoViewer

StepCall ==
    \E i \in CallIds :
        /\ calls[i].conv.pc \notin {"done", "failed"}
        /\ calls' = stepCall(calls, i)
        /\ UNCHANGED <<zip, conv, nat, box, markup, parsed, api, lib, viewer>>

NextPair == StepCall

SpecPair == InitPair /\ [][NextPair]_vars

-----------------------------------------------------------------------------
(* Specification of the library under addBook calls of one user *)

InitBook ==
    /\ zip = Files
    /\ conv = Idle
    /\ nat = <<0, 0>>
    /\ box = NoBox
    /\ markup = <<>>
    /\ parsed = NotParsed
    /\ api = NoApi
    /\ calls = NoCalls
    /\ viewer = NoViewer
    /\ \E t \in Tables0 :
        \E ins \in [Callers -> BookInputs] :
            lib = [table |-> t, table0 |-> t, storage |-> Storage0(t),
                   list |-> List0(t), list0 |-> List0(t),
                   call |-> [i \in Callers |-> [NewAddBook(i, ins[i]) EXCEPT !.pc = "start"]]]

LibStep(l) == lib' = l /\ UNCHANGED <<zip, conv, nat, box, markup, parsed, api, calls, viewer>>

\* addBook is called: its lookup is in flight
CallAddBook ==
    \E i \in Callers : lib.call[i].pc = "start" /\ LibStep([lib EXCEPT !.call[i].pc = "lookup"])

LookupAnswers ==
    \E i \in Callers : \E row \in lookupRows(lib, i) :
        lib.call[i].pc = "lookup" /\ LibStep(addBookLookup(lib, i, TRUE, row))

LookupFails ==
    \E i \in Callers : lib.call[i].pc = "lookup" /\ LibStep(addBookLookup(lib, i, FALSE, ""))

InsertAnswers ==
    \E i \in Callers :
        /\ lib.call[i].pc = "write" /\ lib.call[i].existingBookId = ""
        /\ LibStep(addBookWrite(lib, i, TRUE))

UpdateAnswers ==
    \E i \in Callers :
        /\ lib.call[i].pc = "write" /\ lib.call[i].existingBookId # ""
        /\ LibStep(addBookWrite(lib, i, TRUE))

WriteFails ==
    \E i \in Callers : lib.call[i].pc = "write" /\ LibStep(addBookWrite(lib, i, FALSE))

UploadAnswers ==
    \E i \in Callers : lib.call[i].pc = "upload" /\ LibStep(addBookUpload(lib, i, TRUE))

UploadFails ==
    \E i \in Callers : lib.call[i].pc = "upload" /\ LibStep(addBookUpload(lib, i, FALSE))

RemoveStaleAnswers ==
    \E i \in Callers : \E ok \in BOOLEAN :
        lib.call[i].pc = "removeStale" /\ LibStep(addBookRemoveStale(lib, i, ok))

RollbackAnswers ==
    \E i \in Callers : \E ok \in BOOLEAN :
        lib.call[i].pc = "rollback" /\ LibStep(addBookRollback(lib, i, ok))

NextBook ==
    \/ CallAddBook
    \/ LookupAnswers
    \/ LookupFails
    \/ InsertAnswers
    \/ UpdateAnswers
    \/ WriteFails
    \/ UploadAnswers
    \/ UploadFails
    \/ RemoveStaleAnswers
    \/ RollbackAnswers

SpecBook == InitBook /\ [][NextBook]_vars

-----------------------------------------------------------------------------
(* Specification of the viewer under the actions of its user *)

InitViewer ==
    /\ zip = Files
    /\ conv = Idle
    /\ nat = <<0, 0>>
    /\ box = NoBox
    /\ markup = <<>>
    /\ parsed = NotParsed
    /\ api = NoApi
    /\ calls = NoCalls
    /\ lib = NoLib
    /\ viewer = NewViewer

ViewerStep(v) ==
    viewer' = v /\ UNCHANGED <<zip, conv, nat, box, markup, parsed, api, calls, lib>>

SelectBook ==
    \E id \in DocIds :
        /\ viewer.tab = "library" /\ viewer.mounts < MaxMounts
        /\ ViewerStep(setActiveBook(viewer, id))

ShowLibrary == viewer.tab = "viewer" /\ ViewerStep(showLibrary(viewer))

ShowViewer ==
    /\ viewer.tab = "library" /\ viewer.mounts < MaxMounts
    /\ ViewerStep(mountViewer(viewer))

LoadSuccess ==
    /\ viewer.tab = "viewer" /\ viewer.activeBookId # NoBookId
    /\ DocPages[viewer.activeBookId] > 0
    /\ viewer.numPages # DocPages[viewer.activeBookId]
    /\ ViewerStep(onDocumentLoadSuccess(viewer))

\* the buttons are disabled at the first and at the last page
PreviousPage ==
    /\ toolbarEnabled(viewer) /\ viewer.currentPage > 1
    /\ ViewerStep(goToPage(viewer, viewer.currentPage - 1))

NextPage ==
    /\ toolbarEnabled(viewer) /\ viewer.currentPage < viewer.numPages
    /\ ViewerStep(goToPage(viewer, viewer.currentPage + 1))

JumpToChapter ==
    /\ toolbarEnabled(viewer)
    /\ \E ch \in viewer.chapters[viewer.activeBookId] : ViewerStep(handleChapterSelect(viewer, ch))

MarkStart ==
    /\ toolbarEnabled(viewer) /\ viewer.chapterStart = NoPage
    /\ ViewerStep(markChapterStart(viewer))

MarkEnd ==
    /\ toolbarEnabled(viewer) /\ viewer.chapterStart # NoPage
    /\ ViewerStep(markChapterEnd(viewer))

CancelStart ==
    /\ toolbarEnabled(viewer) /\ viewer.chapterStart # NoPage
    /\ ViewerStep(cancelChapterStart(viewer))

CancelNaming ==
    /\ viewer.tab = "viewer" /\ viewer.namingDialog.open
    /\ ViewerStep(cancelNaming(viewer))

ConfirmName ==
    /\ viewer.tab = "viewer" /\ viewer.namingDialog.open
    /\ viewer.confirms < MaxConfirms
    /\ ViewerStep(handleChapterConfirm(viewer))

Extracted == \E e \in viewer.extracting : ViewerStep(finishChapterConfirm(viewer, e))

NextViewer ==
    \/ SelectBook
    \/ ShowLibrary
    \/ ShowViewer
    \/ LoadSuccess
    \/ PreviousPage
    \/ NextPage
    \/ JumpToChapter
    \/ MarkStart
    \/ MarkEnd
    \/ CancelStart
    \/ CancelNaming
    \/ ConfirmName
    \/ Extracted

SpecViewer == InitViewer /\ [][NextViewer]_vars

-----------------------------------------------------------------------------
(* What the properties below speak about, read off the archive itself *)

\* the container descriptor exists and names a package document that exists
HasContainer == ContainerPath \in DOMAIN zip
RootfileTags ==
    IF HasContainer
    THEN SelectSeq(zip[ContainerPath].tags,
                   LAMBDA t : t.name \in {"rootfile", "rootfiles"} /\ t.fullPath # <<>>)
    ELSE <<>>
NamesPackage == RootfileTags # <<>>
NamedPackage == RootfileTags[1].fullPath
ValidArchive == NamesPackage /\ NamedPackage \in DOMAIN zip

Package == zip[NamedPackage].opf
PackageDir == SubSeq(NamedPackage, 1, LastIndexOf(NamedPackage, "/"))

\* the declarations of id in the manifest that carry an id and an href
Declarations(opf, id) ==
    { i \in 1..Len(opf.items) : opf.items[i].id = id /\ id # "" /\ opf.items[i].href # <<>> }
Declared(opf, id) == Declarations(opf, id) # {}
LastOf(S) == CHOOSE i \in S : \A j \in S : j <= i
DeclaredHref(opf, id) == decodeXmlEntities(opf.items[LastOf(Declarations(opf, id))].href)

\* the archive entry a reference resolves to: the exact path, else its
\* percent-decoded variant; <<>> when there is none
EntryOf(z, path) ==
    IF path \in DOMAIN z THEN path
    ELSE LET d == decodeURIComponent(path)
         IN  IF d.ok /\ d.val \in DOMAIN z THEN d.val ELSE <<>>

ChapterEntry(z, opf, dir, id) ==
    IF Declared(opf, id) THEN EntryOf(z, resolveHref(dir, DeclaredHref(opf, id))) ELSE <<>>

\* an image block that ends up on a page
Drawable(z, dir, b) ==
    b.type # "image"
    \/ LET e == EntryOf(z, resolveHref(dir, b.src))
       IN  /\ e # <<>>
           /\ getImageFormat(resolveHref(dir, b.src)) # ""
           /\ z[e].image.addable

RECURSIVE ExpectedFrom(_, _, _, _)
\* the blocks that reach a page, as <<spine index, block index>>, in spine
\* order and, within a chapter, in the order of parseHtmlToBlocks; k is the
\* 0-based index of the first itemref of refs
ExpectedFrom(z, opf, refs, k) ==
    IF refs = <<>> THEN <<>>
    ELSE LET e == ChapterEntry(z, opf, PackageDir, Head(refs))
             bs == IF e = <<>> THEN <<>> ELSE parseHtmlToBlocks(z[e].nodes)
             mine == SelectSeq([b \in 1..Len(bs) |-> <<k, b - 1>>],
                               LAMBDA p : Drawable(z, PackageDir, bs[p[2] + 1]))
         IN  mine \o ExpectedFrom(z, opf, Tail(refs), k + 1)

Expected == IF Package.hasSpine THEN ExpectedFrom(zip, Package, Package.itemrefs, 0) ELSE <<>>

LaidOrder == [i \in 1..Len(conv.laid) |-> <<conv.laid[i].si, conv.laid[i].bi>>]

IsPrefix(s, t) == Len(s) <= Len(t) /\ s = SubSeq(t, 1, Len(s))

Ended == conv.pc \in {"done", "failed"}

\* what a finished call shows of itself: its outcome, the page and cursor
\* each chapter started at and, for each block drawn, the chapter (by rank
\* among the chapters drawn), kind and placement
Outcome(c) ==
    [pc |-> c.pc, error |-> c.error, pageCount |-> c.pageCount, numPages |-> c.numPages,
     starts |-> [i \in 1..Len(c.starts) |-> <<c.starts[i].page, c.starts[i].y>>],
     laid |-> [i \in 1..Len(c.laid) |->
                  [chapter |-> CHOOSE k \in 1..Len(c.starts) : c.starts[k].si = c.laid[i].si,
                   type |-> c.laid[i].type, units |-> c.laid[i].units,
                   page |-> c.laid[i].page, y |-> c.laid[i].y,
                   lastPage |-> c.laid[i].lastPage, lastY |-> c.laid[i].lastY]]]

\* the archive with another package document in place of its own
WithPackage(opf) == [zip EXCEPT ![NamedPackage] = OpfEntry(opf)]

\* the package document without the itemrefs whose idref no item declares
WithoutUndeclared ==
    [Package EXCEPT !.itemrefs = SelectSeq(@, LAMBDA r : Declared(Package, r))]

-----------------------------------------------------------------------------
(* Properties *)

\* C1: when the container descriptor names a package document that exists
\* in the archive, the conversion never throws, and when it returns its
\* pageCount is at least 1, whatever the manifest hrefs are.
C1_NeverThrows ==
    ValidArchive => /\ conv.pc # "failed"
                    /\ conv.pc = "done" => conv.pageCount >= 1

\* C2: at every moment the blocks drawn so far are an initial part of the
\* blocks of the resolving spine items taken in spine order, each chapter's
\* blocks in the order parseHtmlToBlocks emitted them, and a call that
\* returns has drawn all of them.  (The blocks drawn change only in a step
\* that places something, so the comparison is made after those steps and
\* at the return.)
C2_SpineOrder ==
    (conv.placed # <<>> \/ conv.pc = "done") =>
        /\ IsPrefix(LaidOrder, Expected)
        /\ conv.pc = "done" => LaidOrder = Expected

\* a returned call that drew two chapters, an image among their blocks, from
\* a spine that lists ch2 before ch1 while the manifest declares ch1 first
C2_Witness ==
    /\ conv.pc = "done"
    /\ Len(conv.starts) = 2
    /\ conv.spine[1].id = "ch2" /\ conv.spine[2].id = "ch1"
    /\ Len(Package.items) = 2 /\ Package.items[1].id = "ch1"
    /\ \E i \in 1..Len(conv.laid) : conv.laid[i].type = "image"
    /\ \E i \in 1..Len(conv.laid) : conv.laid[i].si = 1

\* C3: the first chapter drawn starts on page 1 at the top margin, every
\* later one on a page allocated for it with the cursor at the top margin,
\* and the page count is at least the number of chapters drawn and at
\* least 1.
C3_ChapterStarts ==
    /\ \A k \in 1..Len(conv.starts) :
          /\ conv.starts[k].y = Pt(MARGIN)
          /\ k = 1 => conv.starts[k].page = 1
          /\ k > 1 => conv.starts[k].page = conv.starts[k].pagesBefore + 1
    /\ conv.numPages > 0 => conv.numPages >= Len(conv.starts)
    /\ conv.pc = "done" => conv.pageCount >= Len(conv.starts) /\ conv.pageCount >= 1

\* a returned call whose first chapter drawn is not the first spine item and
\* whose second chapter follows a page that holds two lines only
C3_Witness ==
    /\ conv.pc = "done"
    /\ Len(conv.starts) = 2
    /\ conv.starts[1].si > 0
    /\ conv.starts[2].page = 3
    /\ \E i \in 1..Len(conv.laid) :
          /\ conv.laid[i].si = conv.starts[1].si
          /\ conv.laid[i].type = "paragraph"
          /\ conv.laid[i].lastPage = 2
          /\ conv.laid[i].lastY <= Pt(MARGIN + LINE_HEIGHT)

\* C4: every line and image is placed at a cursor between the top margin
\* and the bottom margin less its own height (heading size + 4 for a heading
\* line, 16 for a paragraph line, at most 400 + 10 for an image), and the
\* units one block places go to the next page only at its top margin.
C4_UnitsFit ==
    \A i \in 1..Len(conv.placed) :
       LET u == conv.placed[i]
           b == conv.blocks[conv.bi]
       IN  /\ Pt(MARGIN) <= u.y
           /\ u.y + u.H <= Pt(PAGE_HEIGHT - MARGIN)
           /\ 1 <= u.page /\ u.page <= conv.numPages
           /\ u.type = b.type
           /\ u.type = "heading" =>
                 /\ b.tag = "h1" => u.H = Pt(22 + 4)
                 /\ b.tag = "h2" => u.H = Pt(18 + 4)
                 /\ b.tag = "h3" => u.H = Pt(15 + 4)
                 /\ b.tag = "h4" => u.H = Pt(13 + 4)
                 /\ u.H <= Pt(22 + 4)
           /\ u.type = "paragraph" => u.H = Pt(16)
           /\ u.type = "image" => Pt(10) <= u.H /\ u.H <= Pt(400 + 10)
           /\ i > 1 =>
                 \/ u.page = conv.placed[i - 1].page /\ u.y = conv.placed[i - 1].y + u.H
                 \/ u.page = conv.placed[i - 1].page + 1 /\ u.y = Pt(MARGIN)

\* an image that did not fit below the image before it and was drawn at the
\* top of the next page
C4_Witness ==
    /\ conv.pc = "block"
    /\ conv.bi > 1
    /\ conv.placed # <<>>
    /\ conv.placed[1].type = "image"
    /\ conv.placed[1].y = Pt(MARGIN)
    /\ conv.laid[Len(conv.laid) - 1].type = "image"
    /\ conv.laid[Len(conv.laid) - 1].page = conv.placed[1].page - 1

\* C5: the itemrefs whose idref no manifest item declares change nothing: a
\* call that has ended shows the outcome of the call on the same archive
\* with those itemrefs removed from the spine.
C5_UndeclaredIdrefSkipped ==
    (ValidArchive /\ Ended) =>
        Outcome(conv) = Outcome(run(WithPackage(WithoutUndeclared), NewCall))

\* a returned call on a spine whose second itemref is undeclared, between
\* two chapters that were drawn
C5_Witness ==
    /\ conv.pc = "done"
    /\ Len(conv.spine) = 3
    /\ conv.spine[2].id = "nope"
    /\ Len(conv.starts) = 2
    /\ conv.laid # <<>>

\* C6: a spine item whose href resolves to no archive entry, neither as
\* written nor percent-decoded, is skipped: the next step goes on to the
\* next spine item and raises no error.
C6_UnresolvedItemSkipped ==
    [][(/\ AtSpineItem
        /\ Declared(Package, spineItem(conv).id)
        /\ ChapterEntry(zip, Package, PackageDir, spineItem(conv).id) = <<>>)
       => (conv'.pc = "spine" /\ conv'.si = conv.si + 1 /\ conv'.error = "")]_vars

\* C7: without a container descriptor, without a rootfile declaration that
\* has a path, or without the package document it names, the call fails: it
\* never gets past the read that fails, creates no document and returns no
\* page count.
C7_FatalWithoutPackage ==
    ~ValidArchive =>
        /\ conv.pc \in {"readContainer", "readOpf", "failed"}
        /\ ~NamesPackage => conv.pc \in {"readContainer", "failed"}
        /\ conv.numPages = 0 /\ conv.pageCount = 0 /\ conv.laid = <<>>

\* the call failed on a container descriptor that names an absent package
\* document
C7_Witness ==
    /\ NamesPackage
    /\ NamedPackage \notin DOMAIN zip
    /\ conv.pc = "failed"
    /\ conv.error = "MissingFile"

\* C8: a package document without a usable manifest item or without a spine
\* section gives zero chapters: the call does not fail, draws nothing and
\* returns pageCount = 1.
C8_EmptyPackage ==
    (/\ ValidArchive
     /\ \/ ~Package.hasSpine
        \/ \A i \in 1..Len(Package.items) :
              Package.items[i].id = "" \/ Package.items[i].href = <<>>)
    => /\ conv.pc # "failed"
       /\ conv.starts = <<>> /\ conv.laid = <<>>
       /\ conv.numPages <= 1
       /\ conv.pc = "done" => conv.pageCount = 1

\* a returned call on a package document that declares items but has no
\* spine section
C8_Witness ==
    /\ ValidArchive
    /\ ~Package.hasSpine
    /\ Package.items # <<>>
    /\ Package.items[1].href # <<>>
    /\ conv.pc = "done"

\* a reference to an image that is in the archive neither under its path
\* nor under the percent-decoded path
MissingImage(src) == EntryOf(zip, resolveHref(PackageDir, decodeXmlEntities(src))) = <<>>

\* markup without its references to missing images
WithoutMissingRefs(nodes) ==
    SelectSeq([i \in 1..Len(nodes) |->
                  [nodes[i] EXCEPT !.imgs = SelectSeq(@, LAMBDA r : ~MissingImage(r))]],
              LAMBDA nd : ~(nd.kind = "img" /\ MissingImage(nd.src)))

WithoutMissingImages ==
    [p \in DOMAIN zip |-> [zip[p] EXCEPT !.nodes = WithoutMissingRefs(@)]]

\* C9: references to images that are not in the archive change nothing: a
\* call that has ended shows the outcome (blocks drawn, their placement,
\* pageCount) of the call on the same archive with those references removed
\* from the chapters' markup.
C9_MissingImageOmitted ==
    (ValidArchive /\ Ended) => Outcome(conv) = Outcome(run(WithoutMissingImages, NewCall))

\* C10: the display box of an image of positive natural size W x H is at
\* most the content width wide and at most 400 high, has the aspect ratio
\* W : H, and is W x H itself when that is within both limits.
C10_DisplayBox ==
    box.done =>
        /\ box.w[1] <= CONTENT_WIDTH * box.w[2]
        /\ box.h[1] <= MAX_IMAGE_HEIGHT * box.h[2]
        /\ box.w[1] > 0 /\ box.h[1] > 0
        /\ box.w[1] * box.h[2] * nat[2] = box.h[1] * box.w[2] * nat[1]
        /\ (nat[1] <= CONTENT_WIDTH /\ nat[2] <= MAX_IMAGE_HEIGHT)
              => box.w = <<nat[1], 1>> /\ box.h = <<nat[2], 1>>

\* the box of an image wider than the content width whose height, scaled to
\* that width, is still above the maximum: both steps scaled it
C10_Witness ==
    /\ box.done
    /\ nat[1] > CONTENT_WIDTH
    /\ nat[2] * CONTENT_WIDTH > MAX_IMAGE_HEIGHT * nat[1]
    /\ box.h = <<MAX_IMAGE_HEIGHT, 1>>
    /\ box.w[1] < CONTENT_WIDTH * box.w[2]

\* C11: every read of the archive finds an entry stored under the
\* percent-decoded variant of the requested path: a call fails for a missing
\* file only when the archive holds the container descriptor or the package
\* document neither under the requested path nor under its decoded variant,
\* and a chapter that is stored under the decoded variant is read.
C11_DecodedLookup ==
    /\ (conv.pc = "failed" /\ conv.error = "MissingFile") =>
          EntryOf(zip, IF conv.opfPath = <<>> THEN ContainerPath ELSE conv.opfPath) = <<>>
    /\ (ValidArchive /\ conv.pc = "readChapter") =>
          conv.entry = ChapterEntry(zip, Package, PackageDir, spineItem(conv).id)

\* the markup parseHtmlToBlocks works on and what its regular expressions
\* find in it
Cleaned == removeScripts(markup)
Nodes == nodesOf(markup)
TextBlocks == SelectSeq(parsed.blocks, LAMBDA b : b.type # "image")

RECURSIVE InDocumentOrder(_)
\* the blocks of the matches with every image outside them at its place
InDocumentOrder(nodes) ==
    IF nodes = <<>> THEN <<>>
    ELSE (IF Head(nodes).kind = "img"
          THEN <<ImageBlock(decodeXmlEntities(Head(nodes).src))>>
          ELSE blocksOfMatches(<<Head(nodes)>>)) \o InDocumentOrder(Tail(nodes))

\* C12: an image outside every recognized block element stands, in the
\* blocks returned, after every block that precedes it in the markup and
\* before every block that follows it: the blocks are those of the markup
\* in document order.
C12_LooseImagesInPlace ==
    (parsed.done /\ blocksOfMatches(Nodes) # <<>>) => parsed.blocks = InDocumentOrder(Nodes)

\* the text of the whole chapter, tags stripped and entities decoded
WholeText == trim(stripTags(tagsToText(Cleaned)))

\* C13: markup without a recognized block element gives its whole text as
\* one paragraph block, also when it holds images.
C13_FallbackParagraph ==
    (/\ parsed.done
     /\ \A i \in 1..Len(markup) : ~(markup[i].k = "open" /\ markup[i].name \in BlockTags)
     /\ WholeText # NoText)
    => TextBlocks = <<ParagraphBlock(WholeText, FALSE, FALSE)>>

\* the words of the markup that a reader sees
VisibleWords ==
    { Cleaned[i].name : i \in { j \in 1..Len(Cleaned) :
          Cleaned[j].k = "chr" /\
          Cleaned[j].name \in {"Title", "Some", "bold", "text.", "it", "small", "loose",
                               "Inner", "body", "in", "after"} } }

\* C14: every word of visible text (outside script and style) is in the
\* text of some block returned.
C14_TextPreserved ==
    parsed.done =>
        \A w \in VisibleWords :
            \E i \in 1..Len(parsed.blocks) :
                \E j \in 1..Len(parsed.blocks[i].text) : parsed.blocks[i].text[j].w = w

RECURSIVE matchingClose(_, _, _, _)
\* index of the closing tag that ends the element of that name opened just
\* before position j, nested elements of the same name counted
matchingClose(h, j, name, depth) ==
    IF j > Len(h) THEN 0
    ELSE IF h[j] = Open(name) THEN matchingClose(h, j + 1, name, depth + 1)
    ELSE IF h[j] = Close(name)
         THEN IF depth = 0 THEN j ELSE matchingClose(h, j + 1, name, depth - 1)
    ELSE matchingClose(h, j + 1, name, depth)

RECURSIVE ElementBlocks(_, _)
\* one block for each recognized block element of h with text that opens at
\* position i or later, by the position of the opening tag
ElementBlocks(h, i) ==
    IF i > Len(h) THEN <<>>
    ELSE LET e == SubSeq(h, i, matchingClose(h, i + 1, h[i].name, 0))
             text == trim(stripTags(tagsToText(e)))
         IN  (IF h[i].k = "open" /\ h[i].name \in BlockTags /\ text # NoText
              THEN IF h[i].name \in HeadingTags
                   THEN <<HeadingBlock(text, h[i].name)>>
                   ELSE <<ParagraphBlock(text, hasTag(e, {"b", "strong"}),
                                         hasTag(e, {"i", "em"}))>>
              ELSE <<>>) \o ElementBlocks(h, i + 1)

\* C15: each recognized block element with text gives exactly one block: a
\* heading with the tag's level for h1..h6, otherwise a paragraph with the
\* element's text, bold iff a b or strong tag is inside it and italic iff an
\* i or em tag is.
C15_OneBlockPerElement ==
    (parsed.done /\ ElementBlocks(Cleaned, 1) # <<>>) => TextBlocks = ElementBlocks(Cleaned, 1)

\* the character with code point n
CodePoint(n) == IF n \in 32..126 THEN Ascii[n - 31] ELSE "chr" \o ToString(n)

RECURSIVE hexEnd(_, _)
hexEnd(s, i) == IF i <= Len(s) /\ s[i].n = 0 /\ IsHex(s[i].w) THEN hexEnd(s, i + 1) ELSE i - 1

RECURSIVE HexNumber(_)
HexNumber(ds) ==
    IF ds = <<>> THEN 0 ELSE 16 * HexNumber(SubSeq(ds, 1, Len(ds) - 1)) + HexVal(ds[Len(ds)].w)

StartsWith(s, pat) == Len(s) >= Len(pat) /\ SubSeq(s, 1, Len(pat)) = Chars(pat)

NamedEntities ==
    << [name |-> <<"&", "a", "m", "p", ";">>, char |-> "&"],
       [name |-> <<"&", "l", "t", ";">>, char |-> "<"],
       [name |-> <<"&", "g", "t", ";">>, char |-> ">"],
       [name |-> <<"&", "q", "u", "o", "t", ";">>, char |-> "dquote"],
       [name |-> <<"&", "a", "p", "o", "s", ";">>, char |-> "'"],
       [name |-> <<"&", "n", "b", "s", "p", ";">>, char |-> " "] >>

RECURSIVE DecodedOnce(_)
\* the text with each entity and each numeric character reference, decimal
\* or hexadecimal, replaced by the character it stands for
DecodedOnce(s) ==
    IF s = <<>> THEN s
    ELSE IF \E k \in 1..Len(NamedEntities) : StartsWith(s, NamedEntities[k].name)
         THEN LET k == CHOOSE k \in 1..Len(NamedEntities) : StartsWith(s, NamedEntities[k].name)
              IN  <<Run(NamedEntities[k].char, 0)>>
                  \o DecodedOnce(SubSeq(s, Len(NamedEntities[k].name) + 1, Len(s)))
    ELSE IF /\ StartsWith(s, <<"&", "#">>) /\ digitsEnd(s, 3) >= 3
            /\ digitsEnd(s, 3) < Len(s) /\ s[digitsEnd(s, 3) + 1] = Run(";", 0)
         THEN <<Run(CodePoint(Number(SubSeq(s, 3, digitsEnd(s, 3)))), 0)>>
              \o DecodedOnce(SubSeq(s, digitsEnd(s, 3) + 2, Len(s)))
    ELSE IF /\ StartsWith(s, <<"&", "#", "x">>) /\ hexEnd(s, 4) >= 4
            /\ hexEnd(s, 4) < Len(s) /\ s[hexEnd(s, 4) + 1] = Run(";", 0)
         THEN <<Run(CodePoint(HexNumber(SubSeq(s, 4, hexEnd(s, 4)))), 0)>>
              \o DecodedOnce(SubSeq(s, hexEnd(s, 4) + 2, Len(s)))
    ELSE <<Head(s)>> \o DecodedOnce(Tail(s))

\* C16: in the text of a block, &amp; &lt; &gt; &quot; &apos; stand for
\* & < > " ', &nbsp; for a space, and every numeric character reference for
\* the character with that code point.  (Chapters of block elements that
\* each give one block.)
C16_EntitiesDecoded ==
    (/\ parsed.done
     /\ \A i \in 1..Len(Nodes) : Nodes[i].kind = "block"
     /\ Len(parsed.blocks) = Len(Nodes))
    => \A i \in 1..Len(Nodes) : parsed.blocks[i].text = trim(DecodedOnce(Nodes[i].text))

\* C17: every line of a heading of level 1 to 4 is drawn at a font size
\* above the base font size, at which every paragraph line is drawn.
C17_HeadingsLarger ==
    \A i \in 1..Len(conv.placed) :
       LET u == conv.placed[i]
           b == conv.blocks[conv.bi]
       IN  /\ (u.type = "heading" /\ b.tag \in {"h1", "h2", "h3", "h4"}) => u.size > FONT_SIZE
           /\ u.type = "paragraph" => u.size = FONT_SIZE

\* a heading of level 4 just drawn in a document that holds paragraphs
C17_Witness ==
    /\ conv.placed # <<>>
    /\ conv.placed[1].type = "heading"
    /\ conv.blocks[conv.bi].tag = "h4"
    /\ conv.placed[1].size = 13
    /\ \E i \in 1..Len(conv.laid) : conv.laid[i].type = "paragraph"

\* C18: the endpoint is read-only: no step of a request changes a row of
\* books or chapters.
C18_EndpointReadOnly ==
    [][api'.books = api.books /\ api'.chapters = api.chapters]_vars

C20_CallsIndependent ==
    \A i \in CallIds :
        calls[i].conv.pc \in {"done", "failed"} =>
            Outcome(calls[i].conv) = Outcome(run(calls[i].zip, NewCall))

\* the first call has returned while the second, on another archive, waits
\* for an image to decode with blocks already drawn
C20_Witness ==
    /\ calls["first"].conv.pc = "done"
    /\ calls["first"].conv.pageCount = 2
    /\ calls["second"].conv.pc = "imgDecode"
    /\ calls["second"].conv.laid # <<>>
    /\ calls["second"].zip # calls["first"].zip

\* C21: an image reference is looked up relative to the directory of the
\* chapter file that holds it: at every image block, the lookup the call makes
\* is the lookup (exact path, then percent-decoded) of the src joined to the
\* directory of the chapter's archive path.
C21_ChapterRelativeImages ==
    (conv.pc = "block" /\ conv.bi < Len(conv.blocks) /\ block(conv).type = "image") =>
        imageLookup(zip, conv) =
            lookupWithDecode(zip, resolveHref(opfDirOf(chapterLookup(zip, conv).name),
                                              block(conv).src))

\* the source level of a heading tag and the size of a display level
Level(tag) == CHOOSE L \in 1..6 : tag = "h" \o ToString(L)
Min(a, b) == IF a < b THEN a ELSE b
DisplaySize(L) == headingSize("h" \o ToString(L))

\* C22: a heading of source level L is drawn at the size of display level
\* min(L, 4): every line of the heading that was just laid out has that size,
\* so h5 and h6 have the size of h4.
C22_LevelsCapped ==
    (conv.pc = "block" /\ conv.bi > 0 /\ conv.blocks[conv.bi].type = "heading") =>
        \A k \in 1..Len(conv.placed) :
            conv.placed[k].size = DisplaySize(Min(Level(conv.blocks[conv.bi].tag), 4))

\* C23: the base font is restored after every block: whenever the call is
\* about to process a block, is at the head of the spine loop or has returned,
\* the active font is the normal style at the base font size.
C23_BaseFontRestored ==
    conv.pc \in {"spine", "block", "done"} =>
        conv.fontSize = FONT_SIZE /\ conv.fontStyle = "normal"

\* a bold italic paragraph has just been drawn and the next block is due
C23_Witness ==
    /\ conv.pc = "block"
    /\ conv.bi > 0
    /\ conv.blocks[conv.bi].type = "paragraph"
    /\ conv.blocks[conv.bi].bold
    /\ conv.blocks[conv.bi].italic
    /\ conv.placed # <<>>
    /\ conv.fontStyle = "normal"

\* C24: every call eventually returns a result or raises a fatal error, when
\* every image decode signals load or error; the result (pageCount) exists
\* only once the call has returned.
C24_Terminates ==
    /\ <>(conv.pc \in {"done", "failed"})
    /\ [](conv.pc # "done" => conv.pageCount = 0)

\* a call has returned after it waited for images that load and for images
\* that signal an error
C24_Witness ==
    /\ conv.pc = "done"
    /\ conv.pageCount > 0
    /\ \E k \in 1..Len(conv.laid) : conv.laid[k].type = "image"
    /\ \E p \in DOMAIN zip : zip[p].image.addable /\ ~zip[p].image.loads

\* C25: an image block that ends up not drawn leaves the layout state as it
\* was: every step of the call inside an image block that draws nothing
\* keeps the cursor position and the number of pages.
C25_SkippedImageKeepsLayout ==
    [][(/\ conv.pc \in {"block", "imgRead", "imgDecode"}
        /\ conv.bi < Len(conv.blocks)
        /\ block(conv).type = "image"
        /\ conv'.laid = conv.laid)
       => (conv'.cursorY = conv.cursorY /\ conv'.numPages = conv.numPages)]_vars

\* C26: addBook is all-or-nothing: when a call has thrown and no other call
\* has been made, the rows of the books table and the book list are those
\* from before the call.
C26_AddBookAllOrNothing ==
    \A i \in Callers :
        (lib.call[i].pc = "threw" /\ \A j \in Callers \ {i} : lib.call[j].pc = "start") =>
            (lib.table = lib.table0 /\ lib.list = lib.list0)

\* C27: whatever the interleaving of the calls, the table never holds two
\* rows whose file names are equal ignoring case.
C27_OneRowPerFileName ==
    \A a, b \in DOMAIN lib.table :
        ilike(lib.table[a].file_name, lib.table[b].file_name) => a = b

\* the user whose key row holds the value the request was sent with
KeyOwner(keys, apiKey) == (CHOOSE k \in keys : k.key_value = apiKey).user_id

\* C28: a request that was served with a valid key is answered with rows of
\* the key's owner only: no row of a book or chapter in the response has
\* another user_id.
C28_OwnRowsOnly ==
    LET r == api.resp
    IN  (r.status = 200 /\ r.key # NoKeyHeader /\ r.activeAtCheck) =>
            \A row \in r.rows : row.user_id = KeyOwner(api.keys, r.key)

\* whether the text holds a numeric character reference
HasNumericRef(s) ==
    \E i \in 1..(Len(s) - 1) : s[i] = Run("&", 0) /\ s[i + 1] = Run("#", 0)

\* C29: each entity occurrence is decoded exactly once: the text of a block
\* is the markup's text with every named entity replaced by its character in
\* one pass, so that &amp;lt; gives the text &lt; and not <.  (Chapters of
\* block elements without numeric references, each giving one block.)
C29_DecodedExactlyOnce ==
    (/\ parsed.done
     /\ \A i \in 1..Len(Nodes) : Nodes[i].kind = "block" /\ ~HasNumericRef(Nodes[i].text)
     /\ Len(parsed.blocks) = Len(Nodes))
    => \A i \in 1..Len(Nodes) : parsed.blocks[i].text = trim(DecodedOnce(Nodes[i].text))

\* C30: every chapter passed to addChapter has 1 <= startPage <= endPage <=
\* the number of pages of its document, and is added to the book that was
\* active when its start was marked.
C30_ChaptersInRange ==
    \A ch \in viewer.added :
        /\ 1 <= ch.startPage
        /\ ch.startPage <= ch.endPage
        /\ ch.endPage <= DocPages[ch.bookId]
        /\ ch.bookId = ch.markedIn

====
